---------------------------- MODULE Spec2Model ----------------------------
(***************************************************************************)
(* Model of the storage core of breez-sdk-ldk: the mirroring local store   *)
(* (libs/sdk-core/src/ldk/store/mirroring_store.rs) over a versioned       *)
(* remote store, and the background refresher of the cross-device lock     *)
(* (libs/sdk-core/src/ldk/store_builder.rs).                               *)
(***************************************************************************)
EXTENDS Integers, Sequences, FiniteSets, TLC

\* ------------------------------------------------------------------ bounds
\* Highest local_version a write may produce in the model.
MaxVersion == 1
\* The reference clock stops at MaxTime; a device clock is at most MaxSkew ahead.
MaxTime == 3
MaxSkew == 1
\* Highest version of the lock record.
MaxLockVersion == 2
\* The most list requests one VersionedStore::list sends.
MaxPages == 3
\* Request times and the server clock run over 0..MaxRequestTime.
MaxRequestTime == 2

\* Time is counted in ticks of 5 s.
\* The lease of the lock record, and the pause of the refresher after a
\* failed refresh (Duration::from_secs(5)).
LeaseTtl == 3
RetryDelay == 1

\* Two devices sharing one remote store, each with its own local table.
Inst == {"A", "B"}
\* Caller threads of the synchronous KV surface.
Threads == {"t1", "t2"}
\* The callers that issue calls in the sequential specification.
Callers == {"t1"}
\* Logical keys: (primary_ns, secondary_ns, key).
Keys == {<<"ns", "sub", "a">>, <<"ns", "sub", "b">>}
Values == {"v1", "v2"}
\* The values the callers write under a key: the second key stands for "the
\* other keys" and takes one value.
ValuesOf(k) == IF k = <<"ns", "sub", "a">> THEN Values ELSE {"v1"}
PreviousHolder == {"LocalInstance", "RemoteInstance"}

VARIABLES
    store,      \* store[i]: the sqlite table `store` of device i (key -> row)
    remote,     \* the objects of the versioned remote store (key -> value, version)
    running,    \* running[i]: a MirroringStore of device i exists
    ops,        \* ops[t]: the KV call thread t is executing, parked in its remote call
    hist,       \* hist[i][k]: the last mutation invoked on k on the running instance
    mutators,   \* devices that have changed the remote store so far
    last,       \* what MirroringStore::new, if it was the step just taken, found and returned
    lockRec,    \* the lock record kept in the remote store
    lk,         \* lk[i]: the locking store of device i (state, lease, known version)
    rpc,        \* rpc[i]: where the lock refresher task of device i stands
    sig,        \* sig[i]: a shutdown signal waits in the channel of the refresher
    now,        \* the reference clock
    skew,       \* skew[i]: how far the clock of device i is ahead of the reference
    stale,      \* a device has changed the lock record after its own lease had run out
    wd,         \* wd[i]: the working directory of device i (sidecar file, startups so far)
    node        \* node[i]: where the call of Ldk::start on device i stands

mlsVars == <<store, remote, running, ops, hist, mutators>>
lockVars == <<lockRec, lk, rpc, sig, now, skew, stale, wd, node>>
vars == <<store, remote, running, ops, hist, mutators, last, lockRec, lk, rpc, sig, now, skew, stale, wd,
          node>>

\* ------------------------------------------------------------ local table
EmptyTable == [k \in {} |-> 0]

Row(v, lv, rv, rm) == [value |-> v, local_version |-> lv, remote_version |-> rv, removed |-> rm]

\* INSERT / UPDATE of one row.
Upsert(t, k, r) == [x \in DOMAIN t \cup {k} |-> IF x = k THEN r ELSE t[x]]

\* DELETE FROM store WHERE primary_ns = ?1 AND secondary_ns = ?2 AND key = ?3
DeleteRow(t, k) == [x \in DOMAIN t \ {k} |-> t[x]]

\* A row is dirty: local_version != remote_version OR removed = 1.
DirtyRow(r) == r.local_version # r.remote_version \/ r.removed

is_dirty(t) == \E k \in DOMAIN t : DirtyRow(t[k])

\* io::Error kinds the KV surface returns.
NotFound == "NotFound"
Other == "Other"

other(err) == Other

\* KVStoreSync::read: the value of a row that is not tombstoned, or NotFound.
Read(t, k) == IF k \in DOMAIN t /\ ~t[k].removed THEN t[k].value ELSE NotFound

\* Variant of List: the secondary namespace is not compared.
ListAnySecondary(t, p, s) == {k \in DOMAIN t : k[1] = p /\ ~t[k].removed}

\* KVStoreSync::list: the keys of the namespace pair that are not tombstoned.
List(t, p, s) == {k \in DOMAIN t : k[1] = p /\ k[2] = s /\ ~t[k].removed}

\* --------------------------------------------------- versioned remote store
EmptyRemote == [k \in {} |-> 0]

RemoteVersion(rem, k) == IF k \in DOMAIN rem THEN rem[k].version ELSE 0

\* put(key, value, version): the server writes iff it stores `version` for the
\* key (0 for an absent key) and then stores version + 1.
PutResult(rem, k, ver) == IF RemoteVersion(rem, k) = ver THEN "Ok" ELSE "Conflict"

PutApply(rem, k, v, ver) ==
    [x \in DOMAIN rem \cup {k} |-> IF x = k THEN [value |-> v, version |-> ver + 1] ELSE rem[x]]

\* delete(key): unconditional (version -1), succeeds on an absent key.
DeleteApply(rem, k) == [x \in DOMAIN rem \ {k} |-> rem[x]]


\* ------------------------------------------------------- write and remove
\* Variant of WriteLocal: a first write stores remote_version = 0, as if the
\* remote had acknowledged it.
WriteLocalAcked(t, k, v) ==
    IF k \notin DOMAIN t
    THEN [skip |-> FALSE, next_version |-> 0,
          table |-> Upsert(t, k, Row(v, 0, 0, FALSE))]
    ELSE IF ~t[k].removed /\ t[k].value = v
    THEN [skip |-> TRUE, next_version |-> t[k].local_version, table |-> t]
    ELSE [skip |-> FALSE, next_version |-> t[k].local_version + 1,
          table |-> Upsert(t, k, Row(v, t[k].local_version + 1, t[k].remote_version, FALSE))]

\* Variant of WriteLocal: no short-circuit arm, an unchanged value is written
\* again with the next version.
WriteLocalAlways(t, k, v) ==
    IF k \notin DOMAIN t
    THEN [skip |-> FALSE, next_version |-> 0,
          table |-> Upsert(t, k, Row(v, 0, -1, FALSE))]
    ELSE [skip |-> FALSE, next_version |-> t[k].local_version + 1,
          table |-> Upsert(t, k, Row(v, t[k].local_version + 1, t[k].remote_version, FALSE))]

\* Variant of WriteLocal: a changed value is stored without advancing
\* local_version.
WriteLocalKeepingVersion(t, k, v) ==
    IF k \notin DOMAIN t
    THEN [skip |-> FALSE, next_version |-> 0,
          table |-> Upsert(t, k, Row(v, 0, -1, FALSE))]
    ELSE IF ~t[k].removed /\ t[k].value = v
    THEN [skip |-> TRUE, next_version |-> t[k].local_version, table |-> t]
    ELSE [skip |-> FALSE, next_version |-> t[k].local_version,
          table |-> Upsert(t, k, Row(v, t[k].local_version, t[k].remote_version, FALSE))]

\* The local half of KVStoreSync::write: the row lookup and the three arms of
\* the match on it. skip = the call returns Ok without a remote put.
WriteLocal(t, k, v) ==
    IF k \notin DOMAIN t
    THEN [skip |-> FALSE, next_version |-> 0,
          table |-> Upsert(t, k, Row(v, 0, -1, FALSE))]
    ELSE IF ~t[k].removed /\ t[k].value = v
    THEN [skip |-> TRUE, next_version |-> t[k].local_version, table |-> t]
    ELSE [skip |-> FALSE, next_version |-> t[k].local_version + 1,
          table |-> Upsert(t, k, Row(v, t[k].local_version + 1, t[k].remote_version, FALSE))]

\* Variant of AckRow: remote_version is set to the version the server holds.
AckRowAtServerVersion(t, k) ==
    IF k \in DOMAIN t
    THEN Upsert(t, k, [t[k] EXCEPT !.remote_version = t[k].local_version + 1])
    ELSE t

\* Variant of AckRow: the acknowledgement advances local_version as well.
AckRowBumping(t, k) ==
    IF k \in DOMAIN t
    THEN Upsert(t, k, [t[k] EXCEPT !.local_version = @ + 1,
                                   !.remote_version = t[k].local_version + 1])
    ELSE t

\* UPDATE store SET remote_version = local_version WHERE <key>
AckRow(t, k) ==
    IF k \in DOMAIN t
    THEN Upsert(t, k, [t[k] EXCEPT !.remote_version = t[k].local_version])
    ELSE t

\* Variant of RemoveLocal: the UPDATE has no WHERE clause.
RemoveLocalEveryRow(t, k) == [x \in DOMAIN t |-> [t[x] EXCEPT !.removed = TRUE]]

\* Variant of RemoveLocal: the tombstone is not set before the remote call.
RemoveLocalLate(t, k) == t

\* UPDATE store SET removed = 1 WHERE <key>
RemoveLocal(t, k) ==
    IF k \in DOMAIN t THEN Upsert(t, k, [t[k] EXCEPT !.removed = TRUE]) ELSE t

\* ------------------------------------------------------------ reconciliation
\* The orders in which a SELECT without ORDER BY, or the remote listing, may
\* deliver the keys.
KeyOrders == {o \in [1..Cardinality(Keys) -> Keys] : \A k \in Keys : \E j \in DOMAIN o : o[j] = k}

\* A remote call of a reconciliation is numbered from 1; failAt names the call
\* that fails with an Internal error (0: the remote is healthy).
FailPoints == 0..(Cardinality(Keys) + 1)

\* Variant of UploadDeletes: the tombstoned rows are dropped locally and no
\* remote delete is sent.
UploadDeletesLocalOnly(s, ks, failAt) ==
    [s EXCEPT !.table = [x \in DOMAIN s.table \ {ks[j] : j \in DOMAIN ks} |-> s.table[x]]]

RECURSIVE UploadDeletes(_, _, _)
UploadDeletes(s, ks, failAt) ==
    IF ks = <<>> \/ s.res # "Ok" THEN s
    ELSE LET k == Head(ks)
             c == s.calls + 1
         IN IF failAt = c
            THEN [s EXCEPT !.res = "Internal", !.calls = c, !.dels = @ + 1]
            ELSE UploadDeletes([s EXCEPT !.rem = DeleteApply(@, k),
                                         !.table = DeleteRow(@, k),
                                         !.calls = c, !.dels = @ + 1],
                               Tail(ks), failAt)

RECURSIVE UploadPuts(_, _, _)
UploadPuts(s, ks, failAt) ==
    IF ks = <<>> \/ s.res # "Ok" THEN s
    ELSE LET k == Head(ks)
             c == s.calls + 1
             r == s.table[k]
         IN IF failAt = c
            THEN [s EXCEPT !.res = "Internal", !.calls = c, !.puts = @ + 1]
            ELSE IF PutResult(s.rem, k, r.local_version) # "Ok"
            THEN [s EXCEPT !.res = "Conflict", !.calls = c, !.puts = @ + 1]
            ELSE UploadPuts([s EXCEPT !.rem = PutApply(@, k, r.value, r.local_version),
                                      !.table = AckRow(@, k),
                                      !.calls = c, !.puts = @ + 1],
                            Tail(ks), failAt)

\* Variant of upload: the outdated rows are put before the tombstoned rows are
\* deleted.
uploadPutsFirst(t, rem, ord, failAt) ==
    LET s0 == [res |-> "Ok", table |-> t, rem |-> rem, calls |-> 0,
               puts |-> 0, dels |-> 0, gets |-> 0, lists |-> 0]
        outdated == SelectSeq(ord, LAMBDA k : k \in DOMAIN t /\ ~t[k].removed
                                   /\ t[k].local_version # t[k].remote_version)
        s1 == UploadPuts(s0, outdated, failAt)
        tombs == SelectSeq(ord, LAMBDA k : k \in DOMAIN t /\ t[k].removed)
    IN UploadDeletes(s1, tombs, failAt)

\* upload: first the tombstoned rows are deleted remotely and locally, then the
\* rows with local_version != remote_version are put with their local_version.
upload(t, rem, ord, failAt) ==
    LET s0 == [res |-> "Ok", table |-> t, rem |-> rem, calls |-> 0,
               puts |-> 0, dels |-> 0, gets |-> 0, lists |-> 0]
        tombs == SelectSeq(ord, LAMBDA k : k \in DOMAIN t /\ t[k].removed)
        s1 == UploadDeletes(s0, tombs, failAt)
        outdated == SelectSeq(ord, LAMBDA k : k \in DOMAIN t /\ ~t[k].removed
                                   /\ t[k].local_version # t[k].remote_version)
    IN UploadPuts(s1, outdated, failAt)

RECURSIVE DownloadGets(_, _, _)
DownloadGets(s, ks, failAt) ==
    IF ks = <<>> \/ s.res # "Ok" THEN s
    ELSE LET k == Head(ks)
             c == s.calls + 1
             o == s.rem[k]
         IN IF failAt = c
            THEN [s EXCEPT !.res = "Internal", !.calls = c, !.gets = @ + 1]
            ELSE DownloadGets([s EXCEPT !.table = Upsert(@, k, Row(o.value, o.version - 1,
                                                                  o.version - 1, FALSE)),
                                        !.calls = c, !.gets = @ + 1],
                              Tail(ks), failAt)

\* Variant of download: the table is not truncated first.
downloadKeepingRows(t, rem, ord, failAt) ==
    LET s0 == [res |-> IF failAt = 1 THEN "Internal" ELSE "Ok",
               table |-> t, rem |-> rem, calls |-> 1,
               puts |-> 0, dels |-> 0, gets |-> 0, lists |-> 1]
        listed == SelectSeq(ord, LAMBDA k : k \in DOMAIN rem)
    IN DownloadGets(s0, listed, failAt)

\* Variant of download: the rows are stored with the version the server holds.
downloadAtServerVersion(t, rem, ord, failAt) ==
    LET s0 == [res |-> IF failAt = 1 THEN "Internal" ELSE "Ok",
               table |-> EmptyTable, rem |-> rem, calls |-> 1,
               puts |-> 0, dels |-> 0, gets |-> 0, lists |-> 1]
        listed == SelectSeq(ord, LAMBDA k : k \in DOMAIN rem)
        d == DownloadGets(s0, listed, failAt)
    IN [d EXCEPT !.table = [k \in DOMAIN d.table |->
                              [d.table[k] EXCEPT !.local_version = @ + 1,
                                                 !.remote_version = @ + 1]]]

\* download: DELETE FROM store, then one row per listed remote object, stored
\* with local_version = remote_version = version - 1.
download(t, rem, ord, failAt) ==
    LET s0 == [res |-> IF failAt = 1 THEN "Internal" ELSE "Ok",
               table |-> EmptyTable, rem |-> rem, calls |-> 1,
               puts |-> 0, dels |-> 0, gets |-> 0, lists |-> 1]
        listed == SelectSeq(ord, LAMBDA k : k \in DOMAIN rem)
    IN DownloadGets(s0, listed, failAt)

\* Variant of Reconcile: a dirty table is uploaded whoever held the lock before.
ReconcileDirtyFirst(t, rem, previous_holder, ord, failAt) ==
    IF is_dirty(t)
    THEN upload(t, rem, ord, failAt)
    ELSE IF previous_holder = "LocalInstance"
    THEN [res |-> "Ok", table |-> t, rem |-> rem, calls |-> 0,
          puts |-> 0, dels |-> 0, gets |-> 0, lists |-> 0]
    ELSE download(t, rem, ord, failAt)

\* MirroringStore::new: the match on (previous_holder, is_dirty).
Reconcile(t, rem, previous_holder, ord, failAt) ==
    IF previous_holder = "LocalInstance"
    THEN IF is_dirty(t)
         THEN upload(t, rem, ord, failAt)
         ELSE [res |-> "Ok", table |-> t, rem |-> rem, calls |-> 0,
               puts |-> 0, dels |-> 0, gets |-> 0, lists |-> 0]
    ELSE download(t, rem, ord, failAt)

\* ------------------------------------------------------------------ actions
IdleOp == [pc |-> "idle"]
NoHist == [kind |-> "none"]
Gone == [kind |-> "gone"]
\* write(k, v) returned res; put: how its remote put settled ("none": no put
\* was issued); repeated: the call before it on this key was write(k, v) too.
Written(v, res, put, repeated) ==
    [kind |-> "write", value |-> v, res |-> res, put |-> put, repeated |-> repeated]
NoReturn == [op |-> "none"]

\* Variant of KeyLocked: the mutex of the key-lock map is held until the call
\* returns, so a call parked on any key holds every key.
KeyLockedByAnyCall(i, k) == \E t \in Threads : ops[t].pc # "idle" /\ ops[t].inst = i

\* Variant of KeyLocked: write and remove do not take the key mutex.
KeyNeverLocked(i, k) == FALSE

\* key_lock: the per-key mutex of instance i is held by a call parked on k.
KeyLocked(i, k) ==
    \E t \in Threads : ops[t].pc # "idle" /\ ops[t].inst = i /\ ops[t].key = k

Busy(i) == \E t \in Threads : ops[t].pc # "idle" /\ ops[t].inst = i

\* The previous call on k of this instance was write(k, v).
SameAsPrevious(i, k, v) == hist[i][k].kind = "write" /\ hist[i][k].value = v

\* KVStoreSync::write up to the remote call: take the key mutex, update the
\* row; the short-circuit arm returns Ok at once.
WriteBegin(t, i, k, v) ==
    /\ running[i]
    /\ ops[t].pc = "idle"
    /\ ~KeyLocked(i, k)
    /\ LET w == WriteLocal(store[i], k, v)
       IN /\ w.next_version <= MaxVersion
          /\ store' = [store EXCEPT ![i] = w.table]
          /\ IF w.skip
             THEN /\ ops' = ops
                  /\ hist' = [hist EXCEPT ![i][k] = Written(v, "Ok", "none", SameAsPrevious(i, k, v))]
                  /\ last' = NoReturn
             ELSE /\ ops' = [ops EXCEPT ![t] =
                                [pc |-> "put", inst |-> i, key |-> k, value |-> v,
                                 next_version |-> w.next_version,
                                 repeated |-> SameAsPrevious(i, k, v)]]
                  /\ hist' = [hist EXCEPT ![i][k] = NoHist]
                  /\ last' = NoReturn
    /\ UNCHANGED <<remote, running, mutators>>
    /\ UNCHANGED lockVars

\* KVStoreSync::write from the remote put on: the put settles (fail: it fails
\* with an Internal error), then remote_version is set and the call returns.
WriteRemote(t, fail) ==
    /\ ops[t].pc = "put"
    /\ LET i == ops[t].inst
           k == ops[t].key
           v == ops[t].value
           r == IF fail THEN "Internal" ELSE PutResult(remote, k, ops[t].next_version)
           ret == IF r = "Ok" THEN "Ok" ELSE other(r)
       IN /\ IF r = "Ok"
             THEN /\ remote' = PutApply(remote, k, v, ops[t].next_version)
                  /\ store' = [store EXCEPT ![i] = AckRow(store[i], k)]
                  /\ mutators' = mutators \cup {i}
             ELSE UNCHANGED <<remote, store, mutators>>
          /\ hist' = [hist EXCEPT ![i][k] = Written(v, ret, r, ops[t].repeated)]
          /\ last' = NoReturn
    /\ ops' = [ops EXCEPT ![t] = IdleOp]
    /\ UNCHANGED running
    /\ UNCHANGED lockVars

\* KVStoreSync::remove up to the remote call: take the key mutex, set the
\* tombstone.
RemoveBegin(t, i, k) ==
    /\ running[i]
    /\ ops[t].pc = "idle"
    /\ ~KeyLocked(i, k)
    /\ store' = [store EXCEPT ![i] = RemoveLocal(store[i], k)]
    /\ ops' = [ops EXCEPT ![t] = [pc |-> "del", inst |-> i, key |-> k]]
    /\ hist' = [hist EXCEPT ![i][k] = Gone]
    /\ last' = NoReturn
    /\ UNCHANGED <<remote, running, mutators>>
    /\ UNCHANGED lockVars

\* KVStoreSync::remove from the remote delete on: on success the row is
\* deleted, on failure the tombstone stays and the error is returned.
RemoveRemote(t, fail) ==
    /\ ops[t].pc = "del"
    /\ LET i == ops[t].inst
           k == ops[t].key
           ret == IF fail THEN other("Internal") ELSE "Ok"
       IN /\ IF fail
             THEN UNCHANGED <<remote, store, mutators>>
             ELSE /\ remote' = DeleteApply(remote, k)
                  /\ store' = [store EXCEPT ![i] = DeleteRow(store[i], k)]
                  /\ mutators' = mutators \cup {i}
          /\ last' = NoReturn
    /\ ops' = [ops EXCEPT ![t] = IdleOp]
    /\ UNCHANGED <<running, hist>>
    /\ UNCHANGED lockVars

\* MirroringStore::new on the table of device i: reconcile, and on success the
\* instance exists. An error leaves what the reconciliation did so far.
Start(i, previous_holder, ord, failAt) ==
    /\ ~running[i]
    /\ ~Busy(i)
    /\ LET t == store[i]
           r == Reconcile(t, remote, previous_holder, ord, failAt)
       IN /\ store' = [store EXCEPT ![i] = r.table]
          /\ remote' = r.rem
          /\ running' = [running EXCEPT ![i] = (r.res = "Ok")]
          /\ mutators' = IF r.rem # remote THEN mutators \cup {i} ELSE mutators
          /\ last' = [op |-> "new", inst |-> i, previous_holder |-> previous_holder,
                      healthy |-> (failAt = 0), res |-> r.res,
                      was_dirty |-> is_dirty(t),
                      puts |-> r.puts, dels |-> r.dels, gets |-> r.gets, lists |-> r.lists,
                      remote_keys |-> DOMAIN remote,
                      tombstoned |-> {k \in DOMAIN t : t[k].removed},
                      outdated |-> {k \in DOMAIN t : ~t[k].removed
                                       /\ t[k].local_version # t[k].remote_version}]
    /\ hist' = [hist EXCEPT ![i] = [k \in Keys |-> NoHist]]
    /\ UNCHANGED ops

\* The instance is dropped (the node stops) once no call is in flight.
Stop(i) ==
    /\ running[i]
    /\ ~Busy(i)
    /\ running' = [running EXCEPT ![i] = FALSE]
    /\ hist' = [hist EXCEPT ![i] = [k \in Keys |-> NoHist]]
    /\ last' = NoReturn
    /\ UNCHANGED <<store, remote, ops, mutators>>

\* Another device, holding the lock while no instance runs here, writes k
\* through its own mirroring store: a put with the version the server stores.
ForeignPut(j, k, v) ==
    /\ \A i \in Inst : ~running[i]
    /\ RemoteVersion(remote, k) <= MaxVersion
    /\ remote' = PutApply(remote, k, v, RemoteVersion(remote, k))
    /\ mutators' = mutators \cup {j}
    /\ last' = NoReturn
    /\ UNCHANGED <<store, running, ops, hist>>
    /\ UNCHANGED lockVars

\* Another device removes k: an unconditional delete.
ForeignDelete(j, k) ==
    /\ \A i \in Inst : ~running[i]
    /\ k \in DOMAIN remote
    /\ remote' = DeleteApply(remote, k)
    /\ mutators' = mutators \cup {j}
    /\ last' = NoReturn
    /\ UNCHANGED <<store, running, ops, hist>>
    /\ UNCHANGED lockVars

\* ------------------------------------------------------- cross-device lock
NoLockRec == [present |-> FALSE]
LockRec(h, e, v) == [present |-> TRUE, holder |-> h, expires_at |-> e, version |-> v]
NoLock == [state |-> "None"]
NoTask == [pc |-> "off"]

NoneRunning == \A i \in Inst : ~running[i]

\* The clock of device i.
LocalNow(i) == now + skew[i]

\* The refresher updates the record every LeaseTtl / 3.
RefreshEvery == LeaseTtl \div 3

\* Variant of Expired: any record of another holder may be replaced.
ExpiredOrForeign(i, rec) == TRUE

\* The lease of a record has run out on the clock of the reader.
Expired(i, rec) == LocalNow(i) >= rec.expires_at

\* Device i considers itself the holder with an unexpired lease.
HoldsLock(i) == lk[i].state = "Acquired" /\ LocalNow(i) < lk[i].until

\* The locking store of a holder: lease end, known version of the record and
\* the previous holder it reports.
Held(previous_holder, until, version) ==
    [state |-> "Acquired", until |-> until, version |-> version,
     previous_holder |-> previous_holder]

\* The marker of an initialized node in the mirrored store.
MarkerKey == <<"breez", "restore_state", "initialized">>
VALUE_INITIALIZED == "1"

\* The working directory of a device: "fresh" (no instance_id file, no table),
\* "new" (the first startup on it has written the file and is acquiring the
\* lock), "used" (a startup on it has gone further), "initialized" (a startup
\* on it has returned Ok).
FreshDir == "fresh"

\* The sidecar file instance_id exists.
HasInstanceId(d) == d # "fresh"

\* read_or_generate_instance_id: the file is written when it is not there.
BeginStartup(d) == IF d = "fresh" THEN "new" ELSE d

\* The startup has passed LockingStore::new.
EndStartup(d) == IF d = "new" THEN "used" ELSE d

\* build_locking_store: the instance id is read or generated, then
\* LockingStore::new reads the lock record.
AcquireRead(i) ==
    /\ rpc[i].pc \in {"off", "done"}
    /\ ~running[i] /\ ~Busy(i)
    /\ lk[i].state \in {"None", "Released"}
    /\ lk' = [lk EXCEPT ![i] = [state |-> "Acquiring", seen |-> lockRec]]
    /\ rpc' = [rpc EXCEPT ![i] = NoTask]
    /\ last' = NoReturn
    /\ wd' = [wd EXCEPT ![i] = BeginStartup(wd[i])]
    /\ UNCHANGED <<lockRec, sig, now, skew, stale, node>>
    /\ UNCHANGED mlsVars

\* LockingStore::new, second half, on the record `seen` read before: keep the
\* own unexpired record, create an absent one, replace an expired one by
\* compare-and-swap. fail: the remote call fails.
LockingStoreNew(i, seen, fail) ==
    LET until == LocalNow(i) + LeaseTtl
    IN IF seen.present /\ seen.holder = i /\ ~Expired(i, seen)
       THEN [res |-> "Ok", rec |-> lockRec,
             lk |-> Held("LocalInstance", seen.expires_at, seen.version)]
       ELSE IF seen.present /\ ~Expired(i, seen)
       THEN [res |-> "Held", rec |-> lockRec, lk |-> NoLock]
       ELSE IF fail
       THEN [res |-> "Internal", rec |-> lockRec, lk |-> NoLock]
       ELSE IF lockRec # seen
       THEN [res |-> "Conflict", rec |-> lockRec, lk |-> NoLock]
       ELSE IF ~seen.present
       THEN [res |-> "Ok", rec |-> LockRec(i, until, 0),
             lk |-> Held("LocalInstance", until, 0)]
       ELSE [res |-> "Ok", rec |-> LockRec(i, until, seen.version + 1),
             lk |-> Held("RemoteInstance", until, seen.version + 1)]

\* refresh_lock: push expires_at forward by compare-and-swap on the known
\* version; the next refresh is due after a third of the lease. A CONFLICT
\* leaves the locking store Stolen. fail: the remote call fails.
refresh_lock(i, fail) ==
    LET l == lk[i]
    IN IF l.state # "Acquired"
       THEN [res |-> "Stolen", rec |-> lockRec, lk |-> l]
       ELSE IF fail
       THEN [res |-> "Internal", rec |-> lockRec, lk |-> l]
       ELSE IF ~(lockRec.present /\ lockRec.version = l.version)
       THEN [res |-> "Conflict", rec |-> lockRec, lk |-> [l EXCEPT !.state = "Stolen"]]
       ELSE [res |-> "Ok", until |-> LocalNow(i) + RefreshEvery,
             rec |-> LockRec(i, LocalNow(i) + LeaseTtl, l.version + 1),
             lk |-> [l EXCEPT !.until = LocalNow(i) + LeaseTtl,
                              !.version = l.version + 1]]

\* unlock: delete the lock record by compare-and-swap on the known version.
\* fail: the remote call fails.
unlock(i, fail) ==
    LET l == lk[i]
    IN IF l.state = "Acquired" /\ ~fail
          /\ lockRec.present /\ lockRec.version = l.version
       THEN [res |-> "Ok", rec |-> NoLockRec]
       ELSE [res |-> "Err", rec |-> lockRec]

\* Variant of AcquireCas: the refresher is spawned whatever LockingStore::new
\* returned.
AcquireCasSpawnAlways(i, fail) ==
    /\ lk[i].state = "Acquiring"
    /\ LET r == LockingStoreNew(i, lk[i].seen, fail)
       IN /\ r.rec.present => r.rec.version <= MaxLockVersion
          /\ lockRec' = r.rec
          /\ lk' = [lk EXCEPT ![i] = r.lk]
          /\ rpc' = [rpc EXCEPT ![i] = [pc |-> "refresh"]]
          /\ wd' = [wd EXCEPT ![i] = EndStartup(@)]
    /\ last' = NoReturn
    /\ UNCHANGED <<sig, now, skew, stale, node>>
    /\ UNCHANGED mlsVars

\* build_locking_store: LockingStore::new returns, and on Ok the refresher is
\* spawned.
AcquireCas(i, fail) ==
    /\ lk[i].state = "Acquiring"
    /\ LET r == LockingStoreNew(i, lk[i].seen, fail)
       IN /\ r.rec.present => r.rec.version <= MaxLockVersion
          /\ lockRec' = r.rec
          /\ lk' = [lk EXCEPT ![i] = r.lk]
          /\ rpc' = [rpc EXCEPT ![i] = IF r.res = "Ok" THEN [pc |-> "refresh"] ELSE @]
          /\ wd' = [wd EXCEPT ![i] = EndStartup(@)]
    /\ last' = NoReturn
    /\ UNCHANGED <<sig, now, skew, stale, node>>
    /\ UNCHANGED mlsVars

\* start_refreshing, the head of the loop: refresh_lock is called; on Ok the
\* task sleeps until the time returned, on an error it logs and sleeps 5 s.
RefreshCall(i, fail) ==
    /\ rpc[i].pc = "refresh"
    /\ LET r == refresh_lock(i, fail)
       IN /\ r.rec.present => r.rec.version <= MaxLockVersion
          /\ lockRec' = r.rec
          /\ lk' = [lk EXCEPT ![i] = r.lk]
          /\ rpc' = [rpc EXCEPT ![i] =
                       [pc |-> "wait",
                        wake |-> IF r.res = "Ok" THEN r.until
                                 ELSE LocalNow(i) + RetryDelay]]
          /\ stale' = (stale \/ (r.res = "Ok" /\ ~HoldsLock(i)))
    /\ last' = NoReturn
    /\ UNCHANGED <<sig, now, skew, wd, node>>
    /\ UNCHANGED mlsVars

\* start_refreshing, the select: the sleep has elapsed and no shutdown signal
\* waits (the select is biased to the signal), so the loop goes round.
RefresherWake(i) ==
    /\ rpc[i].pc = "wait"
    /\ ~sig[i]
    /\ LocalNow(i) >= rpc[i].wake
    /\ rpc' = [rpc EXCEPT ![i] = [pc |-> "refresh"]]
    /\ last' = NoReturn
    /\ UNCHANGED <<lockRec, lk, sig, now, skew, stale, wd, node>>
    /\ UNCHANGED mlsVars

\* start_refreshing after the loop: the shutdown signal was received, the lock
\* is released (the record is deleted by compare-and-swap, best effort) and the
\* receiver is dropped. fail: the remote call fails.
RefresherRelease(i, fail) ==
    /\ rpc[i].pc = "wait"
    /\ sig[i]
    /\ LET r == unlock(i, fail)
       IN /\ lockRec' = r.rec
          /\ stale' = (stale \/ (r.res = "Ok" /\ ~HoldsLock(i)))
    /\ lk' = [lk EXCEPT ![i] = [state |-> "Released"]]
    /\ rpc' = [rpc EXCEPT ![i] = [pc |-> "done"]]
    /\ sig' = [sig EXCEPT ![i] = FALSE]
    /\ last' = NoReturn
    /\ UNCHANGED <<now, skew, wd, node>>
    /\ UNCHANGED mlsVars

\* Ldk::start on shutdown: the node is stopped and the signal is sent to the
\* refresher.
Shutdown(i) ==
    /\ rpc[i].pc \in {"refresh", "wait"}
    /\ ~sig[i]
    /\ ~Busy(i)
    /\ sig' = [sig EXCEPT ![i] = TRUE]
    /\ running' = [running EXCEPT ![i] = FALSE]
    /\ hist' = [hist EXCEPT ![i] = [k \in Keys |-> NoHist]]
    /\ last' = NoReturn
    /\ UNCHANGED <<store, remote, ops, mutators>>
    /\ UNCHANGED <<lockRec, lk, rpc, now, skew, stale, wd, node>>

\* build_mirroring_store after build_locking_store: MirroringStore::new with
\* the previous holder the locking store reported.
LockedStart(i, ord, failAt) ==
    /\ rpc[i].pc \in {"refresh", "wait"}
    /\ ~sig[i]
    /\ Start(i, lk[i].previous_holder, ord, failAt)
    /\ UNCHANGED lockVars

\* RestoreStateTracker::is_initialized: the marker reads "1"; NotFound is
\* "not initialized".
is_initialized(t) == Read(t, MarkerKey) = VALUE_INITIALIZED

\* RestoreStateTracker::mark_initialized: KVStoreSync::write of the marker.
\* putFail: the remote put fails with an Internal error.
mark_initialized(t, rem, putFail) ==
    LET w == WriteLocal(t, MarkerKey, VALUE_INITIALIZED)
    IN IF w.skip
       THEN [res |-> "Ok", table |-> t, rem |-> rem]
       ELSE IF putFail \/ PutResult(rem, MarkerKey, w.next_version) # "Ok"
       THEN [res |-> "Err", table |-> w.table, rem |-> rem]
       ELSE [res |-> "Ok", table |-> AckRow(w.table, MarkerKey),
             rem |-> PutApply(rem, MarkerKey, VALUE_INITIALIZED, w.next_version)]

\* Variant of Build: the marker is set before the restore-only check reads it.
BuildMarkFirst(t, rem, previous_holder, restore_only, ord, failAt, nodeFail, putFail) ==
    LET r == Reconcile(t, rem, previous_holder, ord, failAt)
        m == mark_initialized(r.table, r.rem, putFail)
    IN IF r.res # "Ok"
       THEN [res |-> "Err", table |-> r.table, rem |-> r.rem]
       ELSE IF m.res # "Ok" \/ nodeFail
       THEN [res |-> "Err", table |-> m.table, rem |-> m.rem]
       ELSE IF restore_only /\ ~is_initialized(m.table)
       THEN [res |-> "RestoreOnly", table |-> m.table, rem |-> m.rem]
       ELSE [res |-> "Ok", table |-> m.table, rem |-> m.rem]

\* Ldk::build from MirroringStore::new on: reconcile, read the marker, refuse
\* a restore-only start of a store never initialized, build the node
\* (nodeFail: that fails) and set the marker if it was not there.
Build(t, rem, previous_holder, restore_only, ord, failAt, nodeFail, putFail) ==
    LET r == Reconcile(t, rem, previous_holder, ord, failAt)
        was_initialized == is_initialized(r.table)
        m == mark_initialized(r.table, r.rem, putFail)
    IN IF r.res # "Ok"
       THEN [res |-> "Err", table |-> r.table, rem |-> r.rem]
       ELSE IF restore_only /\ ~was_initialized
       THEN [res |-> "RestoreOnly", table |-> r.table, rem |-> r.rem]
       ELSE IF nodeFail
       THEN [res |-> "Err", table |-> r.table, rem |-> r.rem]
       ELSE IF was_initialized
       THEN [res |-> "Ok", table |-> r.table, rem |-> r.rem]
       ELSE [res |-> m.res, table |-> m.table, rem |-> m.rem]

\* The keys a started node holds, and the orders a listing may deliver them in.
NodeKeys == {<<"ns", "sub", "a">>, MarkerKey}
NodeKeyOrders ==
    {o \in [1..Cardinality(NodeKeys) -> NodeKeys] : \A k \in NodeKeys : \E j \in DOMAIN o : o[j] = k}

\* The keys whose local row is acknowledged while the remote object holds
\* another value: another device has written them since.
ForeignWritten(t, rem) ==
    {k \in DOMAIN t \cap DOMAIN rem :
        ~DirtyRow(t[k]) /\ rem[k].value # t[k].value}

\* What may go wrong in one startup: nothing, the remote call of
\* LockingStore::new ("cas"), the remote call number `at` of the
\* reconciliation, the build of the node, the put of the marker.
Faults ==
    {[kind |-> k, at |-> 0] : k \in {"none", "cas", "node", "put"}}
        \cup {[kind |-> "reconcile", at |-> n] : n \in FailPoints \ {0}}

\* The order of a listing shows only when a call after it fails.
OrdersUnder(fault) ==
    IF fault.at > 1 THEN NodeKeyOrders ELSE {CHOOSE o \in NodeKeyOrders : TRUE}

\* Variant of Connect: the sender of the shutdown channel outlives a startup
\* that failed.
ConnectKeepingSender(i, restore_only, ord, fault) ==
    /\ lk[i].state = "Acquiring"
    /\ LET a == LockingStoreNew(i, lk[i].seen, fault.kind = "cas")
           b == IF a.res = "Ok"
                THEN Build(store[i], remote, a.lk.previous_holder, restore_only,
                           ord, fault.at, fault.kind = "node", fault.kind = "put")
                ELSE [res |-> "Err", table |-> store[i], rem |-> remote]
       IN /\ a.rec.present => a.rec.version <= MaxLockVersion
          /\ \A k \in DOMAIN b.table : b.table[k].local_version <= MaxVersion
          /\ lockRec' = a.rec
          /\ lk' = [lk EXCEPT ![i] = a.lk]
          /\ rpc' = [rpc EXCEPT ![i] = IF a.res = "Ok" THEN [pc |-> "refresh"] ELSE @]
          /\ sig' = [sig EXCEPT ![i] = FALSE]
          /\ store' = [store EXCEPT ![i] = b.table]
          /\ remote' = b.rem
          /\ running' = [running EXCEPT ![i] = (b.res = "Ok")]
          /\ mutators' = IF b.rem # remote THEN mutators \cup {i} ELSE mutators
          /\ wd' = [wd EXCEPT ![i] = IF b.res = "Ok" THEN "initialized" ELSE EndStartup(@)]
          /\ last' = [op |-> "build", inst |-> i, res |-> b.res,
                      previous_holder |-> IF a.res = "Ok" THEN a.lk.previous_holder ELSE "None",
                      fresh |-> (wd[i] = "new"),
                      initialized |-> (wd[i] = "initialized"),
                      remote_keys |-> DOMAIN remote,
                      foreign |-> ForeignWritten(store[i], remote)]
    /\ hist' = [hist EXCEPT ![i] = [k \in Keys |-> NoHist]]
    /\ UNCHANGED <<ops, now, skew, stale, node>>

\* Ldk::build from the return of the lock read on: LockingStore::new settles,
\* the refresher is spawned, the mirroring store is built and the restore
\* state checked and marked. When build returns an error the sender of the
\* shutdown channel is dropped, which the refresher receives like a signal.
Connect(i, restore_only, ord, fault) ==
    /\ lk[i].state = "Acquiring"
    /\ LET a == LockingStoreNew(i, lk[i].seen, fault.kind = "cas")
           b == IF a.res = "Ok"
                THEN Build(store[i], remote, a.lk.previous_holder, restore_only,
                           ord, fault.at, fault.kind = "node", fault.kind = "put")
                ELSE [res |-> "Err", table |-> store[i], rem |-> remote]
       IN /\ a.rec.present => a.rec.version <= MaxLockVersion
          /\ \A k \in DOMAIN b.table : b.table[k].local_version <= MaxVersion
          /\ lockRec' = a.rec
          /\ lk' = [lk EXCEPT ![i] = a.lk]
          /\ rpc' = [rpc EXCEPT ![i] = IF a.res = "Ok" THEN [pc |-> "refresh"] ELSE @]
          /\ sig' = [sig EXCEPT ![i] = (a.res = "Ok" /\ b.res # "Ok")]
          /\ store' = [store EXCEPT ![i] = b.table]
          /\ remote' = b.rem
          /\ running' = [running EXCEPT ![i] = (b.res = "Ok")]
          /\ mutators' = IF b.rem # remote THEN mutators \cup {i} ELSE mutators
          /\ wd' = [wd EXCEPT ![i] = IF b.res = "Ok" THEN "initialized" ELSE EndStartup(@)]
          /\ last' = [op |-> "build", inst |-> i, res |-> b.res,
                      previous_holder |-> IF a.res = "Ok" THEN a.lk.previous_holder ELSE "None",
                      fresh |-> (wd[i] = "new"),
                      initialized |-> (wd[i] = "initialized"),
                      remote_keys |-> DOMAIN remote,
                      foreign |-> ForeignWritten(store[i], remote)]
    /\ hist' = [hist EXCEPT ![i] = [k \in Keys |-> NoHist]]
    /\ UNCHANGED <<ops, now, skew, stale, node>>

\* Time passes.
Tick ==
    /\ now < MaxTime
    /\ now' = now + 1
    /\ last' = NoReturn
    /\ UNCHANGED <<lockRec, lk, rpc, sig, skew, stale, wd, node>>
    /\ UNCHANGED mlsVars

InitMls ==
    /\ store = [i \in Inst |-> EmptyTable]
    /\ remote = EmptyRemote
    /\ running = [i \in Inst |-> FALSE]
    /\ ops = [t \in Threads |-> IdleOp]
    /\ hist = [i \in Inst |-> [k \in Keys |-> NoHist]]
    /\ mutators = {}
    /\ last = NoReturn

Init ==
    /\ InitMls
    /\ lockRec = NoLockRec
    /\ lk = [i \in Inst |-> NoLock]
    /\ rpc = [i \in Inst |-> NoTask]
    /\ sig = [i \in Inst |-> FALSE]
    /\ now = 0
    /\ skew = [i \in Inst |-> 0]
    /\ stale = FALSE
    /\ wd = [i \in Inst |-> FreshDir]
    /\ node = [i \in Inst |-> "off"]

\* One device (A) with its callers; the other device (B) appears through what
\* it does to the remote store while A is down.
Next ==
    \/ \E t \in Callers, k \in Keys : \E v \in ValuesOf(k) : WriteBegin(t, "A", k, v)
    \/ \E t \in Threads, fail \in BOOLEAN : WriteRemote(t, fail)
    \/ \E t \in Callers, k \in Keys : RemoveBegin(t, "A", k)
    \/ \E t \in Threads, fail \in BOOLEAN : RemoveRemote(t, fail)
    \/ \E ph \in PreviousHolder, ord \in KeyOrders, failAt \in FailPoints :
          NoneRunning /\ Start("A", ph, ord, failAt) /\ UNCHANGED lockVars
    \/ Stop("A") /\ UNCHANGED lockVars
    \/ \E k \in Keys : \E v \in ValuesOf(k) : ForeignPut("B", k, v)
    \/ \E k \in Keys : ForeignDelete("B", k)

Spec == Init /\ [][Next]_vars

\* Device A keeps the reference clock; the clock of B may be ahead.
InitLock ==
    /\ InitMls
    /\ lockRec = NoLockRec
    /\ lk = [i \in Inst |-> NoLock]
    /\ rpc = [i \in Inst |-> NoTask]
    /\ sig = [i \in Inst |-> FALSE]
    /\ now = 0
    /\ skew \in {f \in [Inst -> 0..MaxSkew] : f["A"] = 0}
    /\ stale = FALSE
    /\ wd = [i \in Inst |-> FreshDir]
    /\ node = [i \in Inst |-> "off"]

\* Two devices compete for the lock; device A also runs its store and writes
\* one key.
NextLock ==
    \/ \E i \in Inst : AcquireRead(i)
    \/ \E i \in Inst, fail \in BOOLEAN : AcquireCas(i, fail)
    \/ \E i \in Inst, fail \in BOOLEAN : RefreshCall(i, fail)
    \/ \E i \in Inst : RefresherWake(i)
    \/ \E i \in Inst, fail \in BOOLEAN : RefresherRelease(i, fail)
    \/ \E i \in Inst : Shutdown(i)
    \/ \E ord \in KeyOrders : LockedStart("A", ord, 0)
    \/ WriteBegin("t1", "A", <<"ns", "sub", "a">>, "v1")
    \/ WriteRemote("t1", FALSE)
    \/ Tick

SpecLock == InitLock /\ [][NextLock]_vars

\* The thread that calls into the store of a device.
CallerOf(i) == IF i = "A" THEN "t1" ELSE "t2"

\* The value a device writes.
ValueOf(i) == IF i = "A" THEN "v1" ELSE "v2"

\* No other device is in a session: none is starting and no refresher runs.
Alone(i) ==
    \A j \in Inst \ {i} : rpc[j].pc \in {"off", "done"} /\ lk[j].state # "Acquiring"

\* Two devices with agreeing clocks, used one after the other, that start
\* (restore-only or not), write one key and shut down.
NextBuild ==
    \/ \E i \in Inst : Alone(i) /\ AcquireRead(i)
    \/ \E i \in Inst, restore_only \in BOOLEAN, fault \in Faults :
          \E ord \in OrdersUnder(fault) : Connect(i, restore_only, ord, fault)
    \/ \E i \in Inst, fail \in BOOLEAN : RefreshCall(i, fail)
    \/ \E i \in Inst : RefresherWake(i)
    \/ \E i \in Inst, fail \in BOOLEAN : RefresherRelease(i, fail)
    \/ \E i \in Inst : Shutdown(i)
    \/ \E i \in Inst : WriteBegin(CallerOf(i), i, <<"ns", "sub", "a">>, ValueOf(i))
    \/ \E i \in Inst, fail \in BOOLEAN : WriteRemote(CallerOf(i), fail)
    \/ Tick

SpecBuild == Init /\ [][NextBuild]_vars

\* ------------------------------------------------------------------ shutdown
\* Ldk::start up to the event handling: node.start() (ok: it succeeds); when it
\* fails the call returns at once and no signal is sent.
NodeStart(i, ok) ==
    /\ running[i]
    /\ node[i] \in {"off", "exited"}
    /\ node' = [node EXCEPT ![i] = IF ok THEN "serving" ELSE "failed"]
    /\ last' = NoReturn
    /\ UNCHANGED <<lockRec, lk, rpc, sig, now, skew, stale, wd>>
    /\ UNCHANGED mlsVars

\* Ldk::start once the event handling has stopped: the node is stopped, the
\* signal is sent into the channel of the refresher and the call waits in
\* closed(). Nothing waits for the KV calls that other threads have in flight
\* on the store (Ldk::create_invoice writes from the thread of its caller).
ShutdownSend(i) ==
    /\ node[i] = "serving"
    /\ sig' = [sig EXCEPT ![i] = TRUE]
    /\ running' = [running EXCEPT ![i] = FALSE]
    /\ hist' = [hist EXCEPT ![i] = [k \in Keys |-> NoHist]]
    /\ node' = [node EXCEPT ![i] = "closing"]
    /\ last' = NoReturn
    /\ UNCHANGED <<store, remote, ops, mutators>>
    /\ UNCHANGED <<lockRec, lk, rpc, now, skew, stale, wd>>

\* The Ldk whose start returned early is dropped, and the sender of the
\* shutdown channel with it: the refresher receives that like a signal.
LdkDropped(i) ==
    /\ node[i] = "failed"
    /\ ~Busy(i)
    /\ sig' = [sig EXCEPT ![i] = TRUE]
    /\ running' = [running EXCEPT ![i] = FALSE]
    /\ hist' = [hist EXCEPT ![i] = [k \in Keys |-> NoHist]]
    /\ node' = [node EXCEPT ![i] = "off"]
    /\ last' = NoReturn
    /\ UNCHANGED <<store, remote, ops, mutators>>
    /\ UNCHANGED <<lockRec, lk, rpc, now, skew, stale, wd>>

\* start_refreshing, the select: the signal is received and the loop is left.
RefresherBreak(i) ==
    /\ rpc[i].pc = "wait"
    /\ sig[i]
    /\ rpc' = [rpc EXCEPT ![i] = [pc |-> "unlock"]]
    /\ sig' = [sig EXCEPT ![i] = FALSE]
    /\ last' = NoReturn
    /\ UNCHANGED <<lockRec, lk, now, skew, stale, wd, node>>
    /\ UNCHANGED mlsVars

\* start_refreshing after the loop: unlock is called and its result is logged.
\* fail: the remote call fails.
RefresherUnlock(i, fail) ==
    /\ rpc[i].pc = "unlock"
    /\ LET r == unlock(i, fail)
       IN /\ lockRec' = r.rec
          /\ stale' = (stale \/ (r.res = "Ok" /\ ~HoldsLock(i)))
          /\ rpc' = [rpc EXCEPT ![i] = [pc |-> "drop", unlocked |-> r.res]]
    /\ lk' = [lk EXCEPT ![i] = [state |-> "Released"]]
    /\ last' = NoReturn
    /\ UNCHANGED <<sig, now, skew, wd, node>>
    /\ UNCHANGED mlsVars

\* start_refreshing, its last statement: the receiver is dropped and the task
\* ends.
RefresherDrop(i) ==
    /\ rpc[i].pc = "drop"
    /\ rpc' = [rpc EXCEPT ![i] = [pc |-> "done", unlocked |-> rpc[i].unlocked]]
    /\ last' = NoReturn
    /\ UNCHANGED <<lockRec, lk, sig, now, skew, stale, wd, node>>
    /\ UNCHANGED mlsVars

\* Variant of ReceiverDropped: closed() does not wait for the receiver.
ReceiverDroppedOrNot(i) == TRUE

\* Sender::closed() completes once the receiver of the channel is dropped.
ReceiverDropped(i) == rpc[i].pc = "done"

\* Ldk::start, its end: closed() has completed and the call returns.
ShutdownReturn(i) ==
    /\ node[i] = "closing"
    /\ ReceiverDropped(i)
    /\ node' = [node EXCEPT ![i] = "exited"]
    /\ last' = NoReturn
    /\ UNCHANGED <<lockRec, lk, rpc, sig, now, skew, stale, wd>>
    /\ UNCHANGED mlsVars

\* What may go wrong in a startup here: nothing, or the remote call of
\* LockingStore::new.
StartupFaults == {f \in Faults : f.kind \in {"none", "cas"}}

\* Two devices that start, serve and shut down, one after the other.
NextShutdown ==
    \/ \E i \in Inst : Alone(i) /\ node[i] \in {"off", "exited"} /\ AcquireRead(i)
    \/ \E i \in Inst, fault \in StartupFaults :
          \E ord \in OrdersUnder(fault) : Connect(i, FALSE, ord, fault)
    \/ \E i \in Inst, ok \in BOOLEAN : NodeStart(i, ok)
    \/ \E i \in Inst, fail \in BOOLEAN : RefreshCall(i, fail)
    \/ \E i \in Inst : RefresherWake(i)
    \/ \E i \in Inst : ShutdownSend(i)
    \/ \E i \in Inst : LdkDropped(i)
    \/ \E i \in Inst : RefresherBreak(i)
    \/ \E i \in Inst, fail \in BOOLEAN : RefresherUnlock(i, fail)
    \/ \E i \in Inst : RefresherDrop(i)
    \/ \E i \in Inst : ShutdownReturn(i)
    \/ Tick

\* The remote calls of the refresher terminate and a task that can go on is
\* scheduled.
RefresherFairness(i) ==
    /\ WF_vars(\E fail \in BOOLEAN : RefreshCall(i, fail))
    /\ WF_vars(RefresherBreak(i))
    /\ WF_vars(\E fail \in BOOLEAN : RefresherUnlock(i, fail))
    /\ WF_vars(RefresherDrop(i))
    /\ WF_vars(ShutdownReturn(i))

SpecShutdown == Init /\ [][NextShutdown]_vars /\ \A i \in Inst : RefresherFairness(i)

\* Two devices whose startups may fail at any point, and that shut down after
\* the startups that succeeded.
NextFailedStartup ==
    \/ \E i \in Inst : Alone(i) /\ node[i] \in {"off", "exited"} /\ AcquireRead(i)
    \/ \E i \in Inst, restore_only \in BOOLEAN, fault \in Faults :
          \E ord \in OrdersUnder(fault) : Connect(i, restore_only, ord, fault)
    \/ \E i \in Inst, ok \in BOOLEAN : NodeStart(i, ok)
    \/ \E i \in Inst, fail \in BOOLEAN : RefreshCall(i, fail)
    \/ \E i \in Inst : RefresherWake(i)
    \/ \E i \in Inst : ShutdownSend(i)
    \/ \E i \in Inst : LdkDropped(i)
    \/ \E i \in Inst : RefresherBreak(i)
    \/ \E i \in Inst, fail \in BOOLEAN : RefresherUnlock(i, fail)
    \/ \E i \in Inst : RefresherDrop(i)
    \/ \E i \in Inst : ShutdownReturn(i)
    \/ Tick

SpecFailedStartup ==
    Init /\ [][NextFailedStartup]_vars /\ \A i \in Inst : RefresherFairness(i)

\* Two devices that start, serve and shut down, with a caller on each that
\* writes while the store exists.
NextRelease ==
    \/ \E i \in Inst : Alone(i) /\ ~Busy(i) /\ node[i] \in {"off", "exited"} /\ AcquireRead(i)
    \/ \E i \in Inst, fault \in StartupFaults :
          \E ord \in OrdersUnder(fault) : Connect(i, FALSE, ord, fault)
    \/ \E i \in Inst, ok \in BOOLEAN : NodeStart(i, ok)
    \/ \E i \in Inst, fail \in BOOLEAN : RefreshCall(i, fail)
    \/ \E i \in Inst : RefresherWake(i)
    \/ \E i \in Inst : ShutdownSend(i)
    \/ \E i \in Inst : LdkDropped(i)
    \/ \E i \in Inst : RefresherBreak(i)
    \/ \E i \in Inst, fail \in BOOLEAN : RefresherUnlock(i, fail)
    \/ \E i \in Inst : RefresherDrop(i)
    \/ \E i \in Inst : ShutdownReturn(i)
    \/ \E i \in Inst : WriteBegin(CallerOf(i), i, <<"ns", "sub", "a">>, ValueOf(i))
    \/ \E i \in Inst, fail \in BOOLEAN : WriteRemote(CallerOf(i), fail)
    \/ Tick

SpecRelease ==
    Init /\ [][NextRelease]_vars /\ \A i \in Inst : RefresherFairness(i)

\* ---------------------------------------------------------------- VssStore
\* The wallet seeds the stores are built from; the device uses DeviceSeed.
Seeds == {"s1", "s2"}
DeviceSeed == "s1"
Nonces == {"n1", "n2"}
VssValues == {"v1", "v2"}

\* HMAC-SHA256 of the key material under the salt.
Hkdf(initial_key_material, salt) == "hmac(" \o salt \o "," \o initial_key_material \o ")"

derive_data_encryption_and_obfuscation_keys(vss_seed) ==
    LET prk == Hkdf(vss_seed, "pseudo_random_key")
        k1 == Hkdf(prk, "data_encryption_key")
        k2 == Hkdf(prk, k1 \o "obfuscation_key")
    IN <<k1, k2>>

VssStoreNew(vss_seed) ==
    LET keys == derive_data_encryption_and_obfuscation_keys(vss_seed)
    IN [data_encryption_key |-> keys[1], key_obfuscator |-> keys[2]]

\* KeyObfuscator::obfuscate: a deterministic one-to-one mapping of key names
\* to opaque strings under the obfuscation master key.
KeyObfuscate(obfuscation_master_key, key) ==
    "obf(" \o obfuscation_master_key \o "," \o key \o ")"

obfuscate_key(self, key) == KeyObfuscate(self.key_obfuscator, key)

\* StorableBuilder::build: the value and the version are encrypted under the
\* data encryption key with a fresh nonce, the aad is bound into the tag.
StorableBuild(input, version, data_encryption_key, aad, nonce) ==
    [data |-> input, version |-> version, sealed |-> data_encryption_key,
     aad |-> aad, nonce |-> nonce]

\* StorableBuilder::deconstruct: authenticates and decrypts; fails when the key
\* or the aad is not the one of build.
StorableDeconstruct(storable, data_encryption_key, aad) ==
    IF storable.sealed = data_encryption_key /\ storable.aad = aad
    THEN [res |-> "Ok", value |-> storable.data, version |-> storable.version]
    ELSE [res |-> "Err"]

\* Message::encode_to_vec and Storable::decode; NotAStorable is a byte string
\* that is not the encoding of a Storable.
EncodeToVec(storable) == <<"Storable", storable>>
NotAStorable == <<"bytes">>
StorableDecode(bytes) ==
    IF Len(bytes) = 2 /\ bytes[1] = "Storable"
    THEN [res |-> "Ok", storable |-> bytes[2]]
    ELSE [res |-> "Err"]

\* VssStore::construct_storable: the aad is key.as_bytes() of the key it is
\* given, the version is the one the server will assign.
construct_storable(self, key, value, version, nonce) ==
    EncodeToVec(StorableBuild(value, version + 1, self.data_encryption_key, key, nonce))

\* VssStore::deconstruct_storable: `key` is rebound to the obfuscated key,
\* which is the aad handed to deconstruct.
deconstruct_storable(self, key, bytes) ==
    LET okey == obfuscate_key(self, key)
        decoded == StorableDecode(bytes)
    IN IF decoded.res # "Ok"
       THEN [res |-> "Internal"]
       ELSE LET r == StorableDeconstruct(decoded.storable, self.data_encryption_key, okey)
            IN IF r.res # "Ok"
               THEN [res |-> "Internal"]
               ELSE [res |-> "Ok", value |-> r.value, version |-> r.version]

\* VersionedStore::get of VssStore: one get_object request (fail: the client
\* gave up on it); the checks on the answer are made after the request
\* returned, outside the client's retry policy.
get(self, srv, key, fail) ==
    LET okey == obfuscate_key(self, key)
    IN IF fail
       THEN [res |-> "Internal", some |-> FALSE, requests |-> 1]
       ELSE IF okey \notin DOMAIN srv
       THEN [res |-> "Ok", some |-> FALSE, requests |-> 1]
       ELSE LET d == deconstruct_storable(self, key, srv[okey].value)
            IN IF d.res # "Ok"
               THEN [res |-> "Internal", some |-> FALSE, requests |-> 1]
               ELSE IF d.version # srv[okey].version
               THEN [res |-> "Internal", some |-> FALSE, requests |-> 1]
               ELSE [res |-> "Ok", some |-> TRUE, value |-> d.value,
                     version |-> srv[okey].version, requests |-> 1]

\* VersionedStore::put of VssStore.
put(self, srv, key, value, version, nonce, fail) ==
    LET okey == obfuscate_key(self, key)
        bytes == construct_storable(self, key, value, version, nonce)
    IN IF fail
       THEN [res |-> "Internal", srv |-> srv]
       ELSE IF PutResult(srv, okey, version) # "Ok"
       THEN [res |-> "Conflict", srv |-> srv]
       ELSE [res |-> "Ok", srv |-> PutApply(srv, okey, bytes, version)]

\* The version VssStore::delete sends.
DeleteVersion == -1

\* Variant of DeleteResult: the server needs the key to be there.
DeleteResultStrict(srv, k, ver) ==
    IF k \in DOMAIN srv /\ (ver = -1 \/ srv[k].version = ver) THEN "Ok" ELSE "Conflict"

\* delete on the server: version -1 asks for no version check; an absent key
\* is deleted with success.
DeleteResult(srv, k, ver) ==
    IF ver = -1 \/ k \notin DOMAIN srv \/ srv[k].version = ver THEN "Ok" ELSE "Conflict"

\* VersionedStore::delete of VssStore.
delete(self, srv, key, fail) ==
    LET okey == obfuscate_key(self, key)
    IN IF fail
       THEN [res |-> "Internal", srv |-> srv]
       ELSE IF DeleteResult(srv, okey, DeleteVersion) # "Ok"
       THEN [res |-> "Conflict", srv |-> srv]
       ELSE [res |-> "Ok", srv |-> DeleteApply(srv, okey)]

\* KVStoreSync::write of a MirroringStore over the VssStore, the whole call.
write(self, t, srv, k, v, nonce, fail) ==
    LET w == WriteLocal(t, k, v)
        p == put(self, srv, k, v, w.next_version, nonce, fail)
    IN IF w.skip
       THEN [res |-> "Ok", put |-> "none", version |-> w.next_version,
             table |-> t, srv |-> srv]
       ELSE IF p.res # "Ok"
       THEN [res |-> other(p.res), put |-> p.res, version |-> w.next_version,
             table |-> w.table, srv |-> srv]
       ELSE [res |-> "Ok", put |-> "Ok", version |-> w.next_version,
             table |-> AckRow(w.table, k), srv |-> p.srv]

\* KVStoreSync::remove of a MirroringStore over the VssStore, the whole call.
remove(self, t, srv, k, fail) ==
    LET t1 == RemoveLocal(t, k)
        d == delete(self, srv, k, fail)
    IN IF d.res # "Ok"
       THEN [res |-> other(d.res), deletes |-> 1, table |-> t1, srv |-> srv]
       ELSE [res |-> "Ok", deletes |-> 1, table |-> DeleteRow(t1, k), srv |-> d.srv]

\* The keys written: a key and the key named like its obfuscated name.
VssKeys == {"k", obfuscate_key(VssStoreNew(DeviceSeed), "k")}

\* The names under which the server holds the objects of VssKeys.
Slots == {obfuscate_key(VssStoreNew(DeviceSeed), k) : k \in VssKeys}

\* VersionedStore::put called on a store built from DeviceSeed.
VssPut(k, v, version, nonce, fail) ==
    /\ LET p == put(VssStoreNew(DeviceSeed), remote, k, v, version, nonce, fail)
       IN /\ remote' = p.srv
          /\ last' = [op |-> "put", key |-> k, value |-> v, version |-> version,
                      res |-> p.res]
    /\ UNCHANGED <<store, running, ops, hist, mutators>>
    /\ UNCHANGED lockVars

\* VersionedStore::get called on a store built from `seed`.
VssGet(seed, k, fail) ==
    /\ last' = [op |-> "get", seed |-> seed, key |-> k,
                ret |-> get(VssStoreNew(seed), remote, k, fail)]
    /\ UNCHANGED <<store, remote, running, ops, hist, mutators>>
    /\ UNCHANGED lockVars

\* VersionedStore::delete called on a store built from DeviceSeed.
VssDelete(k, fail) ==
    /\ LET d == delete(VssStoreNew(DeviceSeed), remote, k, fail)
       IN /\ remote' = d.srv
          /\ last' = [op |-> "delete", key |-> k, res |-> d.res]
    /\ UNCHANGED <<store, running, ops, hist, mutators>>
    /\ UNCHANGED lockVars

\* The server answers for slot b with the object of slot a.
ServerReplace(a, b) ==
    /\ a \in DOMAIN remote /\ a # b
    /\ remote' = [x \in DOMAIN remote \cup {b} |-> IF x = b THEN remote[a] ELSE remote[x]]
    /\ last' = NoReturn
    /\ UNCHANGED <<store, running, ops, hist, mutators>>
    /\ UNCHANGED lockVars

\* The server reports another version for the object of slot a.
ServerReversion(a, ver) ==
    /\ a \in DOMAIN remote /\ remote[a].version # ver
    /\ remote' = [remote EXCEPT ![a].version = ver]
    /\ last' = NoReturn
    /\ UNCHANGED <<store, running, ops, hist, mutators>>
    /\ UNCHANGED lockVars

\* The server answers for slot a with bytes that are no Storable.
ServerCorrupt(a) ==
    /\ a \in DOMAIN remote /\ remote[a].value # NotAStorable
    /\ remote' = [remote EXCEPT ![a].value = NotAStorable]
    /\ last' = NoReturn
    /\ UNCHANGED <<store, running, ops, hist, mutators>>
    /\ UNCHANGED lockVars

\* The versioned remote store of one seed against a server that may answer
\* wrongly.
NextVss ==
    \/ \E k \in VssKeys, v \in VssValues, version \in 0..MaxVersion :
          \E nonce \in Nonces, fail \in BOOLEAN : VssPut(k, v, version, nonce, fail)
    \/ \E seed \in Seeds, k \in VssKeys, fail \in BOOLEAN : VssGet(seed, k, fail)
    \/ \E k \in VssKeys, fail \in BOOLEAN : VssDelete(k, fail)
    \/ \E a \in Slots, b \in Slots : ServerReplace(a, b)
    \/ \E a \in Slots, ver \in 1..(MaxVersion + 1) : ServerReversion(a, ver)
    \/ \E a \in Slots : ServerCorrupt(a)

SpecVss == Init /\ [][NextVss]_vars

\* KVStoreSync::write on the mirroring store of device i over its VssStore.
KvWrite(i, k, v, nonce, fail) ==
    /\ LET w == write(VssStoreNew(DeviceSeed), store[i], remote, k, v, nonce, fail)
       IN /\ \A x \in DOMAIN w.table : w.table[x].local_version <= MaxVersion
          /\ store' = [store EXCEPT ![i] = w.table]
          /\ remote' = w.srv
          /\ last' = [op |-> "write", key |-> k, value |-> v, version |-> w.version,
                      put |-> w.put, res |-> w.res]
    /\ UNCHANGED <<running, ops, hist, mutators>>
    /\ UNCHANGED lockVars

\* KVStoreSync::remove on the mirroring store of device i over its VssStore.
KvRemove(i, k, fail) ==
    /\ LET r == remove(VssStoreNew(DeviceSeed), store[i], remote, k, fail)
       IN /\ store' = [store EXCEPT ![i] = r.table]
          /\ remote' = r.srv
          /\ last' = [op |-> "remove", key |-> k, res |-> r.res, deletes |-> r.deletes]
    /\ UNCHANGED <<running, ops, hist, mutators>>
    /\ UNCHANGED lockVars

\* The mirroring store of one device over its VssStore, one call at a time.
NextKv ==
    \/ \E k \in VssKeys, v \in VssValues, nonce \in Nonces, fail \in BOOLEAN :
          KvWrite("A", k, v, nonce, fail)
    \/ \E k \in VssKeys, fail \in BOOLEAN : KvRemove("A", k, fail)

SpecKv == Init /\ [][NextKv]_vars

\* ------------------------------------------------------- vss-signing-auth
API_KEY_HEADER == "X-Api-Key"
REQUEST_TIME_HEADER == "X-Realtimesync-Request-Time"
SIGNATURE_HEADER == "X-Realtimesync-Signature"
USER_PUBKEY_HEADER == "X-Realtimesync-Pubkey"
SIGNED_MSG_PREFIX == "realtimesync:"

HeaderConsts == {API_KEY_HEADER, REQUEST_TIME_HEADER, SIGNATURE_HEADER, USER_PUBKEY_HEADER}

\* str::to_ascii_lowercase on the header names of the model.
to_ascii_lowercase(name) ==
    CASE name = "X-Api-Key" -> "x-api-key"
      [] name = "X-Realtimesync-Request-Time" -> "x-realtimesync-request-time"
      [] name = "X-Realtimesync-Signature" -> "x-realtimesync-signature"
      [] name = "X-Realtimesync-Pubkey" -> "x-realtimesync-pubkey"
      [] OTHER -> name

\* The header names a request may carry: as the constants spell them, and in
\* lower case.
HeaderNames == HeaderConsts \cup {to_ascii_lowercase(n) : n \in HeaderConsts}

\* The signing keys, and the serialized public key in hex.
SigningKeys == {"A", "B"}
PubkeyHex(signer) == IF signer = "A" THEN "02aa" ELSE "03bb"
NotHex == "zz"
ApiKeys == {"k1", "k2"}
RequestTimes == 0..MaxRequestTime
NotANumber == "x"

\* hex::decode and PublicKey::from_slice.
HexDecode(text) == IF text = NotHex THEN [res |-> "Err"] ELSE [res |-> "Ok", bytes |-> text]
PublicKeyFromSlice(bytes) ==
    IF \E k \in SigningKeys : PubkeyHex(k) = bytes
    THEN [res |-> "Ok", key |-> CHOOSE k \in SigningKeys : PubkeyHex(k) = bytes]
    ELSE [res |-> "Err"]

\* u32::to_string and str::parse::<u32>.
TimeToString(request_timestamp) == ToString(request_timestamp)
ParseU32(text) ==
    IF \E n \in RequestTimes : ToString(n) = text
    THEN [res |-> "Ok", value |-> CHOOSE n \in RequestTimes : ToString(n) = text]
    ELSE [res |-> "Err"]

\* Variant of build_signed_message: the request time is left out.
build_signed_message_untimed(api_key, request_timestamp) ==
    [sha256d |-> <<SIGNED_MSG_PREFIX, api_key>>]

\* build_signed_message: sha256d of prefix, the time in 4 bytes, the API key.
build_signed_message(api_key, request_timestamp) ==
    [sha256d |-> <<SIGNED_MSG_PREFIX, request_timestamp, api_key>>]

\* HeaderProvider::sign_request: 64 compact bytes and the recovery id,
\* zbase32-encoded.
sign_request(signer, api_key, request_timestamp) ==
    [zbase32 |-> [len |-> 65, signer |-> signer,
                  msg |-> build_signed_message(api_key, request_timestamp),
                  recovery_id |-> 0]]

\* Header values that are no signature: not zbase32, and zbase32 of 64 bytes.
InvalidSig == [text |-> "invalidsig"]
ShortSig == [zbase32 |-> [len |-> 64]]

Zbase32Decode(value) ==
    IF "zbase32" \in DOMAIN value
    THEN [res |-> "Ok", bytes |-> value.zbase32]
    ELSE [res |-> "Err"]

\* Secp256k1::recover_ecdsa: the key of the signer for the message signed, a
\* key of nobody for another message.
RecoverEcdsa(msg, signature) == IF signature.msg = msg THEN signature.signer ELSE "nobody"

Signatures ==
    {sign_request("A", k, t) : k \in ApiKeys, t \in RequestTimes} \cup {InvalidSig, ShortSig}

\* The values a header of the given name may carry.
HeaderValues(name) ==
    CASE to_ascii_lowercase(name) = to_ascii_lowercase(API_KEY_HEADER) -> ApiKeys
      [] to_ascii_lowercase(name) = to_ascii_lowercase(REQUEST_TIME_HEADER) ->
            {TimeToString(t) : t \in RequestTimes} \cup {NotANumber}
      [] to_ascii_lowercase(name) = to_ascii_lowercase(USER_PUBKEY_HEADER) ->
            {PubkeyHex(k) : k \in SigningKeys} \cup {NotHex}
      [] OTHER -> Signatures

\* max_skew of authenticate, in the time unit of the model.
max_skew == 1

NoHeaders == [n \in {} |-> 0]

\* The names of `headers` that fall together in lower case.
CaseDuplicates(headers) ==
    {n \in DOMAIN headers : \E o \in DOMAIN headers \ {n} :
        to_ascii_lowercase(o) = to_ascii_lowercase(n)}

\* Variant of LowercaseNames: the names are kept as they are.
KeepNames(headers, pick) == headers

\* headers.iter().map(|(k, v)| (k.to_ascii_lowercase(), v)).collect(): of two
\* entries whose names fall together the one iterated last stays (pick: it is
\* the one spelled in lower case).
LowercaseNames(headers, pick) ==
    [l \in {to_ascii_lowercase(n) : n \in DOMAIN headers} |->
        LET from == {n \in DOMAIN headers : to_ascii_lowercase(n) = l}
        IN IF l \in from /\ (pick \/ from = {l})
           THEN headers[l]
           ELSE headers[CHOOSE n \in from : n # l \/ from = {l}]]

find_header(headers, name) ==
    IF to_ascii_lowercase(name) \in DOMAIN headers
    THEN [res |-> "Ok", value |-> headers[to_ascii_lowercase(name)]]
    ELSE [res |-> "Err"]

AuthenticationFailed == [res |-> "AuthenticationFailed"]

\* authenticate, with the clock it reads.
authenticate(request_headers, skew_allowed, clock, pick) ==
    LET headers == LowercaseNames(request_headers, pick)
        pubkey_hex == find_header(headers, USER_PUBKEY_HEADER)
        pubkey_bytes == HexDecode(pubkey_hex.value)
        expected_pubkey == PublicKeyFromSlice(pubkey_bytes.bytes)
        api_key == find_header(headers, API_KEY_HEADER)
        time_header == find_header(headers, REQUEST_TIME_HEADER)
        request_timestamp == ParseU32(time_header.value)
        distance == IF clock >= request_timestamp.value
                    THEN clock - request_timestamp.value
                    ELSE request_timestamp.value - clock
        signature_header == find_header(headers, SIGNATURE_HEADER)
        signature_bytes == Zbase32Decode(signature_header.value)
        digest == build_signed_message(api_key.value, request_timestamp.value)
    IN IF pubkey_hex.res # "Ok" THEN AuthenticationFailed
       ELSE IF pubkey_bytes.res # "Ok" THEN AuthenticationFailed
       ELSE IF expected_pubkey.res # "Ok" THEN AuthenticationFailed
       ELSE IF api_key.res # "Ok" THEN AuthenticationFailed
       ELSE IF time_header.res # "Ok" THEN AuthenticationFailed
       ELSE IF request_timestamp.res # "Ok" THEN AuthenticationFailed
       ELSE IF distance > skew_allowed THEN AuthenticationFailed
       ELSE IF signature_header.res # "Ok" THEN AuthenticationFailed
       ELSE IF signature_bytes.res # "Ok" THEN AuthenticationFailed
       ELSE IF signature_bytes.bytes.len # 65 THEN AuthenticationFailed
       ELSE IF signature_bytes.bytes.recovery_id \notin 0..3 THEN AuthenticationFailed
       ELSE IF RecoverEcdsa(digest, signature_bytes.bytes) # expected_pubkey.key
       THEN AuthenticationFailed
       ELSE [res |-> "Ok", pubkey |-> pubkey_hex.value]

\* A request is started: its header map is empty.
NewRequest ==
    /\ last.op \in {"none", "auth"}
    /\ last' = [op |-> "headers", headers |-> NoHeaders]
    /\ UNCHANGED <<store, remote, running, ops, hist, mutators>>
    /\ UNCHANGED lockVars

\* HashMap::insert of a header; at most one name is there in two spellings.
AddHeader(name, value) ==
    /\ last.op = "headers"
    /\ name \notin DOMAIN last.headers
    /\ LET h == [n \in DOMAIN last.headers \cup {name} |->
                    IF n = name THEN value ELSE last.headers[n]]
       IN /\ Cardinality(CaseDuplicates(h)) <= 2
          /\ last' = [op |-> "headers", headers |-> h]
    /\ UNCHANGED <<store, remote, running, ops, hist, mutators>>
    /\ UNCHANGED lockVars

\* The server authenticates the request at time `clock`.
Authenticate(clock, pick) ==
    /\ last.op = "headers"
    /\ pick \/ CaseDuplicates(last.headers) # {}
    /\ last' = [op |-> "auth", headers |-> last.headers, clock |-> clock, pick |-> pick,
                ret |-> authenticate(last.headers, max_skew, clock, pick)]
    /\ UNCHANGED <<store, remote, running, ops, hist, mutators>>
    /\ UNCHANGED lockVars

NextAuth ==
    \/ NewRequest
    \/ \E name \in HeaderNames : \E value \in HeaderValues(name) : AddHeader(name, value)
    \/ \E clock \in RequestTimes, pick \in BOOLEAN : Authenticate(clock, pick)

SpecAuth == Init /\ [][NextAuth]_vars

\* ---------------------------------------------------------------------- list
\* The rows of the listing specification: three keys of one namespace pair and
\* a key of the same name in two other pairs.
ListKeys ==
    {<<"ns", "sub", "a">>, <<"ns", "sub", "ab">>, <<"ns", "sub", "B">>,
     <<"ns", "sub2", "a">>, <<"ns2", "sub", "a">>}
ListPrimaries == {k[1] : k \in ListKeys}
ListSecondaries == {k[2] : k \in ListKeys}

\* The UTF-8 bytes of the names above.
Bytes(name) ==
    CASE name = "a" -> <<97>>
      [] name = "b" -> <<98>>
      [] name = "ab" -> <<97, 98>>
      [] name = "B" -> <<66>>
      [] name = "ns" -> <<110, 115>>
      [] name = "ns2" -> <<110, 115, 50>>
      [] name = "sub" -> <<115, 117, 98>>
      [] name = "sub2" -> <<115, 117, 98, 50>>

\* The BINARY collation of sqlite: memcmp, the shorter of two strings that
\* agree on their common length first.
RECURSIVE BytesLess(_, _)
BytesLess(x, y) ==
    IF x = <<>> THEN y # <<>>
    ELSE IF y = <<>> THEN FALSE
    ELSE IF Head(x) # Head(y) THEN Head(x) < Head(y)
    ELSE BytesLess(Tail(x), Tail(y))

\* ORDER BY primary_ns, secondary_ns, key
RowLess(k1, k2) ==
    IF k1[1] # k2[1] THEN BytesLess(Bytes(k1[1]), Bytes(k2[1]))
    ELSE IF k1[2] # k2[2] THEN BytesLess(Bytes(k1[2]), Bytes(k2[2]))
    ELSE BytesLess(Bytes(k1[3]), Bytes(k2[3]))

RECURSIVE OrderBy(_)
OrderBy(rows) ==
    IF rows = {} THEN <<>>
    ELSE LET first == CHOOSE k \in rows : \A x \in rows \ {k} : RowLess(k, x)
         IN <<first>> \o OrderBy(rows \ {first})

\* KVStoreSync::list, the Vec it returns: the column `key` of the selected
\* rows in the order of the ORDER BY.
list(t, p, s) ==
    LET rows == OrderBy(List(t, p, s))
    IN [j \in DOMAIN rows |-> rows[j][3]]

\* KVStoreSync::write on device i, the whole call. fail: the remote put fails
\* with an Internal error.
WriteCall(i, k, v, fail) ==
    /\ LET w == WriteLocal(store[i], k, v)
           r == IF fail THEN "Internal" ELSE PutResult(remote, k, w.next_version)
       IN /\ w.next_version <= MaxVersion
          /\ store' = [store EXCEPT ![i] = IF w.skip THEN store[i]
                                           ELSE IF r = "Ok" THEN AckRow(w.table, k)
                                           ELSE w.table]
          /\ remote' = IF ~w.skip /\ r = "Ok"
                       THEN PutApply(remote, k, v, w.next_version)
                       ELSE remote
          /\ last' = [op |-> "write", inst |-> i, key |-> k, value |-> v,
                      version |-> w.next_version,
                      put |-> IF w.skip THEN "none" ELSE r,
                      res |-> IF w.skip \/ r = "Ok" THEN "Ok" ELSE other(r),
                      row |-> IF k \in DOMAIN store[i] THEN store[i][k] ELSE NotFound,
                      server |-> RemoteVersion(remote, k)]
    /\ UNCHANGED <<running, ops, hist, mutators>>
    /\ UNCHANGED lockVars

\* KVStoreSync::remove on device i, the whole call. fail: the remote delete
\* fails.
RemoveCall(i, k, fail) ==
    /\ store' = [store EXCEPT ![i] = IF fail THEN RemoveLocal(store[i], k)
                                     ELSE DeleteRow(RemoveLocal(store[i], k), k)]
    /\ remote' = IF fail THEN remote ELSE DeleteApply(remote, k)
    /\ last' = [op |-> "remove", inst |-> i, key |-> k,
                res |-> IF fail THEN other("Internal") ELSE "Ok"]
    /\ UNCHANGED <<running, ops, hist, mutators>>
    /\ UNCHANGED lockVars

\* KVStoreSync::list called on device i.
ListCall(i, p, s) ==
    /\ last' = [op |-> "list", inst |-> i, primary |-> p, secondary |-> s,
                ret |-> list(store[i], p, s)]
    /\ UNCHANGED <<store, remote, running, ops, hist, mutators>>
    /\ UNCHANGED lockVars

\* One device writes and removes the rows (a remove may fail at its remote
\* call and leave the tombstone) and lists the namespace pairs.
NextList ==
    \/ \E k \in ListKeys : WriteCall("A", k, "v1", FALSE)
    \/ \E k \in ListKeys, fail \in BOOLEAN : RemoveCall("A", k, fail)
    \/ \E p \in ListPrimaries, s \in ListSecondaries : ListCall("A", p, s)

SpecList == Init /\ [][NextList]_vars

\* ------------------------------------------------------------ concurrent calls
\* Variant of ReadWaits: read takes the mutex of the key like write and remove.
ReadWaitsForKey(i, k) == KeyLocked(i, k)

\* What read and list wait for before they query the table: they take no key
\* mutex.
ReadWaits(i, k) == FALSE

\* KVStoreSync::read called on device i.
ReadCall(i, k) ==
    /\ running[i]
    /\ ~ReadWaits(i, k)
    /\ last' = [op |-> "read", inst |-> i, key |-> k, ret |-> Read(store[i], k)]
    /\ UNCHANGED <<store, remote, running, ops, hist, mutators>>
    /\ UNCHANGED lockVars

\* KVStoreSync::list called on the running device i.
ListRunning(i, p, s) ==
    /\ running[i]
    /\ \A k \in Keys : (k[1] = p /\ k[2] = s) => ~ReadWaits(i, k)
    /\ ListCall(i, p, s)

\* One running device and two caller threads whose calls overlap.
NextConc ==
    \/ NoneRunning /\ Start("A", "LocalInstance", CHOOSE o \in KeyOrders : TRUE, 0)
                   /\ UNCHANGED lockVars
    \/ \E t \in Threads, k \in Keys : \E v \in ValuesOf(k) : WriteBegin(t, "A", k, v)
    \/ \E t \in Threads, fail \in BOOLEAN : WriteRemote(t, fail)
    \/ \E t \in Threads, k \in Keys : RemoveBegin(t, "A", k)
    \/ \E t \in Threads, fail \in BOOLEAN : RemoveRemote(t, fail)
    \/ \E k \in Keys : ReadCall("A", k)
    \/ ListRunning("A", "ns", "sub")

SpecConc == Init /\ [][NextConc]_vars

\* ------------------------------------------------------- a device taking over
\* Device B writes the remote store while A is down; A starts after B, which
\* makes its lock report RemoteInstance, writes and removes, and stops.
NextDownload ==
    \/ \E k \in Keys : \E v \in ValuesOf(k) : ForeignPut("B", k, v)
    \/ \E k \in Keys : ForeignDelete("B", k)
    \/ \E ord \in KeyOrders, failAt \in FailPoints :
          NoneRunning /\ Start("A", "RemoteInstance", ord, failAt) /\ UNCHANGED lockVars
    \/ \E t \in Callers, k \in Keys : \E v \in ValuesOf(k) : WriteBegin(t, "A", k, v)
    \/ \E t \in Threads, fail \in BOOLEAN : WriteRemote(t, fail)
    \/ \E t \in Callers, k \in Keys : RemoveBegin(t, "A", k)
    \/ \E t \in Threads, fail \in BOOLEAN : RemoveRemote(t, fail)
    \/ Stop("A") /\ UNCHANGED lockVars

SpecDownload == Init /\ [][NextDownload]_vars

\* ------------------------------------------------------------ a device alone
\* One device that writes, removes, stops and starts again, its lock reporting
\* either previous holder, with remote calls that may fail.
NextAlone ==
    \/ \E t \in Callers, k \in Keys : \E v \in ValuesOf(k) : WriteBegin(t, "A", k, v)
    \/ \E t \in Threads, fail \in BOOLEAN : WriteRemote(t, fail)
    \/ \E t \in Callers, k \in Keys : RemoveBegin(t, "A", k)
    \/ \E t \in Threads, fail \in BOOLEAN : RemoveRemote(t, fail)
    \/ \E ph \in PreviousHolder, ord \in KeyOrders, failAt \in FailPoints :
          NoneRunning /\ Start("A", ph, ord, failAt) /\ UNCHANGED lockVars
    \/ Stop("A") /\ UNCHANGED lockVars

SpecAlone == Init /\ [][NextAlone]_vars

\* ------------------------------------------------------------- retry policy
\* build_vss_store: ExponentialBackoffRetryPolicy::new(1 s), at most 10
\* attempts, at most 40 s of total delay (in seconds; the jitter of at most
\* 10 ms per sleep is below the resolution of the model).
BaseDelay == 1
MaxAttempts == 10
MaxTotalDelay == 40

\* The calls of the VSS client, the errors an attempt may end with, and those
\* the policy is told not to retry.
RemoteCalls == {"get", "put", "delete", "list"}
VssErrors == {"ConflictError", "NoSuchKeyError", "InvalidRequestError",
              "InternalServerError", "InternalError"}

\* Variant of skip_retry_on_error: a conflict is retried like a transient error.
skip_retry_except_conflict(e) == e \in {"NoSuchKeyError", "InvalidRequestError"}

\* The closure given to skip_retry_on_error.
skip_retry_on_error(e) == e \in {"NoSuchKeyError", "InvalidRequestError", "ConflictError"}

RECURSIVE Pow2(_)
Pow2(n) == IF n = 0 THEN 1 ELSE 2 * Pow2(n - 1)

\* No further attempt.
NoDelay == -1

\* next_delay of the policy as composed: the backoff doubles from BaseDelay,
\* the attempts and the total delay are capped, and the filter comes first.
next_delay(attempts_made, accumulated_delay, error) ==
    LET backoff == BaseDelay * Pow2(attempts_made - 1)
    IN IF skip_retry_on_error(error) THEN NoDelay
       ELSE IF attempts_made >= MaxAttempts THEN NoDelay
       ELSE IF accumulated_delay + backoff > MaxTotalDelay THEN NoDelay
       ELSE backoff

\* From<VssError> for Error, and the arm of get that reads NoSuchKeyError as
\* an absent object.
SurfacedAs(call, e) ==
    IF e = "NoSuchKeyError" /\ call = "get" THEN "None"
    ELSE IF e = "ConflictError" THEN "Conflict"
    ELSE "Internal"

\* A caller starts a remote call.
CallBegin(t, call) ==
    /\ ops[t].pc = "idle"
    /\ ops' = [ops EXCEPT ![t] = [pc |-> "attempt", call |-> call,
                                  attempts_made |-> 0, accumulated_delay |-> 0]]
    /\ last' = NoReturn
    /\ UNCHANGED <<store, remote, running, hist, mutators>>
    /\ UNCHANGED lockVars

\* One attempt of the call ends with outcome (Ok or an error): the call
\* returns, or the policy grants a delay and the task sleeps.
Attempt(t, outcome) ==
    /\ ops[t].pc = "attempt"
    /\ LET n == ops[t].attempts_made + 1
           d == next_delay(n, ops[t].accumulated_delay, outcome)
       IN IF outcome = "Ok" \/ d = NoDelay
          THEN /\ ops' = [ops EXCEPT ![t] = IdleOp]
               /\ last' = [op |-> "call", thread |-> t, call |-> ops[t].call,
                           attempts |-> n, outcome |-> outcome,
                           res |-> IF outcome = "Ok" THEN "Ok"
                                   ELSE SurfacedAs(ops[t].call, outcome)]
          ELSE /\ ops' = [ops EXCEPT ![t] = [pc |-> "sleep", call |-> @.call,
                                             attempts_made |-> n,
                                             accumulated_delay |-> @.accumulated_delay,
                                             delay |-> d, error |-> outcome]]
               /\ last' = NoReturn
    /\ UNCHANGED <<store, remote, running, hist, mutators>>
    /\ UNCHANGED lockVars

\* The sleep of the backoff is over.
Backoff(t) ==
    /\ ops[t].pc = "sleep"
    /\ ops' = [ops EXCEPT ![t] = [pc |-> "attempt", call |-> @.call,
                                  attempts_made |-> @.attempts_made,
                                  accumulated_delay |-> @.accumulated_delay + @.delay]]
    /\ last' = NoReturn
    /\ UNCHANGED <<store, remote, running, hist, mutators>>
    /\ UNCHANGED lockVars

NextRetry ==
    \/ \E t \in Threads, call \in RemoteCalls : CallBegin(t, call)
    \/ \E t \in Threads, outcome \in VssErrors \cup {"Ok"} : Attempt(t, outcome)
    \/ \E t \in Threads : Backoff(t)

SpecRetry == Init /\ [][NextRetry]_vars

\* ---------------------------------------------------------- list pagination
\* KeyObfuscator::deobfuscate: the name is turned back into the key it was
\* made from under this master key; any other name is an error.
KeyDeobfuscate(obfuscation_master_key, name) ==
    IF \E k \in VssKeys : KeyObfuscate(obfuscation_master_key, k) = name
    THEN [res |-> "Ok",
          key |-> CHOOSE k \in VssKeys : KeyObfuscate(obfuscation_master_key, k) = name]
    ELSE [res |-> "Err"]

deobfuscate_key(self, name) ==
    LET d == KeyDeobfuscate(self.key_obfuscator, name)
    IN IF d.res = "Ok" THEN d ELSE [res |-> "Internal"]

\* The next_page_token of a response: absent, empty, or a token; the first
\* two end the listing.
NoToken == "None"
PageTokens == {NoToken, "", "p1", "p2"}
LastPage(token) == token \in {NoToken, ""}

\* The key_versions of one response: names the store made, and one it did not.
PageEntries ==
    {[key |-> n, version |-> 1] : n \in Slots \cup {"foreign"}}
Pages == {<<>>} \cup {<<e>> : e \in PageEntries}

\* Variant of next_request: every request asks for the first page.
first_page_again(response_token) == NoToken

\* request.page_token = response.next_page_token
next_request(response_token) == response_token

\* The closing map of list: every listed name is de-obfuscated; the first
\* failure fails the call.
RECURSIVE Deobfuscated(_, _)
Deobfuscated(self, versions) ==
    IF versions = <<>> THEN [res |-> "Ok", versions |-> <<>>]
    ELSE LET d == deobfuscate_key(self, Head(versions).key)
             rest == Deobfuscated(self, Tail(versions))
         IN IF d.res # "Ok" \/ rest.res # "Ok" THEN [res |-> "Internal"]
            ELSE [res |-> "Ok",
                  versions |-> <<<<d.key, Head(versions).version>>>> \o rest.versions]

\* VersionedStore::list is called: the first request carries no page token.
ListBegin(t) ==
    /\ ops[t].pc = "idle"
    /\ ops' = [ops EXCEPT ![t] = [pc |-> "paging", page_token |-> NoToken,
                                  versions |-> <<>>, sent |-> <<>>, got |-> <<>>]]
    /\ last' = NoReturn
    /\ UNCHANGED <<store, remote, running, hist, mutators>>
    /\ UNCHANGED lockVars

\* One round of the loop of list: the request is sent and answered with a
\* page and a next_page_token (fail: the client gave up on the request). The
\* server ends the listing with its MaxPages-th page at the latest.
ListPage(t, page, token, fail) ==
    /\ ops[t].pc = "paging"
    /\ Len(ops[t].sent) + 1 >= MaxPages => (fail \/ LastPage(token))
    /\ LET o == ops[t]
           sent == Append(o.sent, o.page_token)
           versions == o.versions \o page
           d == Deobfuscated(VssStoreNew(DeviceSeed), versions)
       IN IF fail
          THEN /\ ops' = [ops EXCEPT ![t] = IdleOp]
               /\ last' = [op |-> "list", res |-> "Internal", sent |-> sent,
                           got |-> o.got, listed |-> versions]
          ELSE IF LastPage(token)
          THEN /\ ops' = [ops EXCEPT ![t] = IdleOp]
               /\ last' = IF d.res = "Ok"
                          THEN [op |-> "list", res |-> "Ok", sent |-> sent,
                                got |-> Append(o.got, token), listed |-> versions,
                                versions |-> d.versions]
                          ELSE [op |-> "list", res |-> "Internal", sent |-> sent,
                                got |-> Append(o.got, token), listed |-> versions]
          ELSE /\ ops' = [ops EXCEPT ![t] = [pc |-> "paging",
                                             page_token |-> next_request(token),
                                             versions |-> versions, sent |-> sent,
                                             got |-> Append(o.got, token)]]
               /\ last' = NoReturn
    /\ UNCHANGED <<store, remote, running, hist, mutators>>
    /\ UNCHANGED lockVars

NextPages ==
    \/ ListBegin("t1")
    \/ \E page \in Pages, token \in PageTokens, fail \in BOOLEAN :
          ListPage("t1", page, token, fail)

\* Every request is answered in the end (by a page or by the client giving up).
SpecPages ==
    /\ Init /\ [][NextPages]_vars
    /\ WF_vars(\E page \in Pages, token \in PageTokens, fail \in BOOLEAN :
                  ListPage("t1", page, token, fail))

\* ------------------------------------------------------------- key strings
\* Names as strings: sequences of characters over a letter and the separator.
Slash == "/"
Chars == {"x", Slash}
MaxNameLen == 1
MaxKeyLen == 2
MaxObjects == 2

StringsUpTo(n) == UNION {[1..m -> Chars] : m \in 0..n}
Namespaces == StringsUpTo(MaxNameLen)
KeyNames == StringsUpTo(MaxKeyLen)
Triples == {<<p, s, k>> : p \in Namespaces, s \in Namespaces, k \in KeyNames}
ForeignNames == StringsUpTo(MaxKeyLen)

\* format!("{primary_ns}/{secondary_ns}/{key}")
format(primary_ns, secondary_ns, key) ==
    primary_ns \o <<Slash>> \o secondary_ns \o <<Slash>> \o key

Slashes(str) == Cardinality({i \in 1..Len(str) : str[i] = Slash})

\* Variant of splitn: the string is cut at every separator.
RECURSIVE split(_, _)
split(n, str) ==
    IF Slashes(str) = 0
    THEN <<str>>
    ELSE LET i == CHOOSE j \in 1..Len(str) :
                     str[j] = Slash /\ \A h \in 1..(j - 1) : str[h] # Slash
         IN <<SubSeq(str, 1, i - 1)>> \o split(n, SubSeq(str, i + 1, Len(str)))

\* str::splitn(n, '/') for n >= 1: the string is cut at its first n - 1
\* separators; the last part is the rest, separators included.
RECURSIVE splitn(_, _)
splitn(n, str) ==
    IF n = 1 \/ Slashes(str) = 0
    THEN <<str>>
    ELSE LET i == CHOOSE j \in 1..Len(str) :
                     str[j] = Slash /\ \A h \in 1..(j - 1) : str[h] # Slash
         IN <<SubSeq(str, 1, i - 1)>> \o splitn(n - 1, SubSeq(str, i + 1, Len(str)))

\* download: `match &parts[..] { [p, s, k] => .., _ => continue }`
split_key(full_key) ==
    LET parts == splitn(3, full_key)
    IN IF Len(parts) = 3
       THEN [ok |-> TRUE, primary |-> parts[1], secondary |-> parts[2], key |-> parts[3]]
       ELSE [ok |-> FALSE]

\* download over a remote store whose objects are named by strings: one row
\* per listed name that splits in three, under the triple it splits into.
downloadNames(rem) ==
    LET wf == {n \in DOMAIN rem : split_key(n).ok}
        tripleOf(n) == <<split_key(n).primary, split_key(n).secondary, split_key(n).key>>
        nameOf(t) == CHOOSE n \in wf : tripleOf(n) = t
    IN [t \in {tripleOf(n) : n \in wf} |->
           Row(rem[nameOf(t)].value, rem[nameOf(t)].version - 1,
               rem[nameOf(t)].version - 1, FALSE)]

\* write of v1 under (primary_ns, secondary_ns, key) on device i with a healthy
\* remote: an existing row holds v1 already (short-circuit arm); otherwise the
\* row is inserted at version 0, put under the full key with expected version
\* 0, and acknowledged when the server accepted it.
KeyWrite(i, primary_ns, secondary_ns, key) ==
    LET t == <<primary_ns, secondary_ns, key>>
        full_key == format(primary_ns, secondary_ns, key)
        accepted == full_key \notin DOMAIN remote
    IN /\ t \notin DOMAIN store[i]
       /\ Cardinality(DOMAIN remote) < MaxObjects
       /\ store' = [store EXCEPT ![i] =
                       (t :> Row("v1", 0, IF accepted THEN 0 ELSE -1, FALSE)) @@ @]
       /\ remote' = IF accepted
                    THEN (full_key :> [value |-> "v1", version |-> 1]) @@ remote
                    ELSE remote
       /\ last' = [op |-> "write", inst |-> i, key |-> t,
                   res |-> IF accepted THEN "Ok" ELSE "Conflict"]
       /\ UNCHANGED <<running, ops, hist, mutators>>
       /\ UNCHANGED lockVars

\* Another client of the remote store puts an object under any name.
NamePut(name) ==
    /\ name \notin DOMAIN remote
    /\ Cardinality(DOMAIN remote) < MaxObjects
    /\ remote' = (name :> [value |-> "v2", version |-> 1]) @@ remote
    /\ last' = NoReturn
    /\ UNCHANGED <<store, running, ops, hist, mutators>>
    /\ UNCHANGED lockVars

\* download on device i.
KeyDownload(i) ==
    /\ store' = [store EXCEPT ![i] = downloadNames(remote)]
    /\ last' = [op |-> "download", inst |-> i, res |-> "Ok"]
    /\ UNCHANGED <<remote, running, ops, hist, mutators>>
    /\ UNCHANGED lockVars

\* Device A writes, device B downloads.
NextKeys ==
    \/ \E t \in Triples : KeyWrite("A", t[1], t[2], t[3])
    \/ \E name \in ForeignNames : NamePut(name)
    \/ KeyDownload("B")

SpecKeys == Init /\ [][NextKeys]_vars

\* ------------------------------------------------------------------- claims
KeyA == <<"ns", "sub", "a">>
KeyB == <<"ns", "sub", "b">>

\* What read and list of k's namespace pair show of k on instance i.
Hidden(i, k) == Read(store[i], k) = NotFound /\ k \notin List(store[i], k[1], k[2])

\* C1 Durability: while the last mutation invoked on k on a running instance is
\* a write(k, v) that returned Ok, read(k) returns v, whatever was done to the
\* other keys since.
Durability ==
    \A i \in Inst, k \in Keys :
        (running[i] /\ hist[i][k].kind = "write" /\ hist[i][k].res = "Ok")
            => Read(store[i], k) = hist[i][k].value

\* write(a, v1) returned Ok after a remote put and a remove of the other key
\* was invoked afterwards and is parked in its remote call.
DurabilityWitness ==
    /\ running["A"]
    /\ hist["A"][KeyA].kind = "write" /\ hist["A"][KeyA].res = "Ok"
    /\ hist["A"][KeyA].put = "Ok"
    /\ ops["t1"].pc = "del" /\ ops["t1"].key = KeyB
    /\ KeyB \in DOMAIN store["A"]

\* C2 No silent loss on a failed write: when the remote put of write(k, v)
\* failed, the call returned an error of kind Other, read(k) returns v and the
\* row is dirty (local_version # remote_version).
NoSilentLoss ==
    \A i \in Inst, k \in Keys :
        (running[i] /\ hist[i][k].kind = "write" /\ hist[i][k].put \in {"Internal", "Conflict"})
            => /\ hist[i][k].res = Other
               /\ Read(store[i], k) = hist[i][k].value
               /\ store[i][k].local_version # store[i][k].remote_version

\* A write whose put failed with an Internal error has returned.
NoSilentLossWitness ==
    /\ running["A"]
    /\ hist["A"][KeyA].kind = "write" /\ hist["A"][KeyA].put = "Internal"
    /\ ops["t1"].pc = "idle"

\* C3 Upload recovery: with only this device having written, a start with
\* previous holder LocalInstance and a healthy remote returns Ok, leaves no
\* dirty row, and the remote holds the local value of every row that was
\* outdated and no object for a key that was tombstoned.
UploadRecovery ==
    (/\ last.op = "new"
     /\ last.previous_holder = "LocalInstance"
     /\ last.healthy
     /\ mutators \subseteq {last.inst})
        => /\ last.res = "Ok"
           /\ ~is_dirty(store[last.inst])
           /\ \A k \in last.outdated :
                 /\ k \in DOMAIN remote
                 /\ Read(store[last.inst], k) = remote[k].value
           /\ \A k \in last.tombstoned : k \notin DOMAIN remote

WriteOkIsConfirmed ==
    \A i \in Inst, k \in Keys :
        (running[i] /\ hist[i][k].kind = "write" /\ hist[i][k].res = "Ok")
            => /\ k \in DOMAIN store[i]
               /\ ~DirtyRow(store[i][k])
               /\ k \in DOMAIN remote
               /\ remote[k].value = hist[i][k].value

\* C6 Tombstone honoring: while the last mutation invoked on k is a remove,
\* pending, failed or done, read(k) is NotFound and list omits k.
TombstoneHonoring ==
    \A i \in Inst, k \in Keys :
        (running[i] /\ hist[i][k].kind = "gone") => Hidden(i, k)

\* A remove of an existing key whose remote delete failed: the tombstone is
\* left, the object is still in the remote store.
TombstoneHonoringWitness ==
    /\ running["A"]
    /\ hist["A"][KeyA].kind = "gone"
    /\ ops["t1"].pc = "idle"
    /\ KeyA \in DOMAIN store["A"]
    /\ KeyA \in DOMAIN remote

\* C7 Tombstone recovery: a start with previous holder LocalInstance and a
\* healthy remote on a table that holds a tombstone for k leaves k absent from
\* the remote store, from read and from list.
TombstoneRecovery ==
    (last.op = "new" /\ last.previous_holder = "LocalInstance" /\ last.healthy)
        => \A k \in last.tombstoned : k \notin DOMAIN remote /\ Hidden(last.inst, k)

\* Such a start, of a table with a tombstone whose object was still in the
\* remote store, returned Ok.
TombstoneRecoveryWitness ==
    /\ last.op = "new" /\ last.previous_holder = "LocalInstance" /\ last.healthy
    /\ last.res = "Ok"
    /\ \E k \in last.tombstoned : k \in last.remote_keys

\* The remote puts of a write(k, v) and of the write(k, v) that follows it.
PairPuts(t, i, k) ==
    (IF hist[i][k].put = "none" THEN 0 ELSE 1) + (IF ops'[t].pc = "put" THEN 1 ELSE 0)

MutualExclusionOf(i, j) == i # j => ~(HoldsLock(i) /\ HoldsLock(j))

ClocksAgree == \A i, j \in Inst : skew[i] = skew[j]

RefreshStep(i) == rpc[i].pc = "refresh" /\ rpc'[i].pc = "wait"

\* A step of device i in which a write or remove goes on to its remote call.
MutationStep(i) ==
    \E t \in Threads : ops[t].pc = "idle" /\ ops'[t].pc # "idle" /\ ops'[t].inst = i

\* C10 - Stolen lock stops mutations: once a refresh of an instance failed
\* with CONFLICT the instance stays Stolen until its process ends, performs no
\* further refresh, and no write or remove on it issues a remote put or delete.
StolenStopsMutations ==
    [][\A i \in Inst : lk[i].state = "Stolen" =>
          /\ lk'[i].state \in {"Stolen", "Released"}
          /\ ~RefreshStep(i)
          /\ ~MutationStep(i)]_vars

\* The other devices have shut down and their refreshers have released the lock.
OthersReleased(i) ==
    \A j \in Inst \ {i} : lk[j].state = "Released" /\ rpc[j].pc = "done"

\* C11 - Foreign overwrite is detected: when a device starts after another
\* device downloaded, wrote a different value to a key this device had
\* written, shut down and released the lock, the lock reports previous holder
\* RemoteInstance and read of the key returns the value of the other device.
ForeignOverwriteDetected ==
    (/\ last.op = "build" /\ last.res = "Ok"
     /\ last.foreign # {}
     /\ OthersReleased(last.inst))
    => /\ last.previous_holder = "RemoteInstance"
       /\ \A k \in last.foreign : Read(store[last.inst], k) = remote[k].value

NoFault == [kind |-> "none", at |-> 0]

\* The first startup on a fresh working directory, against an empty remote
\* store, has read the lock record.
FreshStartup(i) ==
    /\ wd[i] = "new"
    /\ lk[i].state = "Acquiring" /\ ~lk[i].seen.present
    /\ ~lockRec.present
    /\ DOMAIN remote = {}
    /\ store[i] = EmptyTable

\* C12 as stated - Restore-only guard: on a fresh working directory with an
\* empty remote store, startup with restore_only = true fails with
\* RESTORE_ONLY and writes no state: no row in the local table, no object in
\* the remote store and no sidecar file.
RestoreOnlyWritesNothing ==
    [][\A i \in Inst, ord \in NodeKeyOrders :
          (FreshStartup(i) /\ Connect(i, TRUE, ord, NoFault))
          => /\ last'.res = "RestoreOnly"
             /\ store'[i] = EmptyTable
             /\ DOMAIN remote' = {} /\ ~lockRec'.present
             /\ ~HasInstanceId(wd'[i])]_vars

\* C12 - Restore-only guard: on a fresh working directory with an empty remote
\* store, startup with restore_only = true fails with RESTORE_ONLY and writes
\* no key-value state (no row in the local table, no key-value object in the
\* remote store); the instance_id file has been written and the lock record
\* is held when it returns, and the refresher is told to release it.
RestoreOnlyGuard ==
    [][\A i \in Inst, ord \in NodeKeyOrders :
          (FreshStartup(i) /\ Connect(i, TRUE, ord, NoFault))
          => /\ last'.res = "RestoreOnly"
             /\ store'[i] = EmptyTable
             /\ DOMAIN remote' = {}
             /\ HasInstanceId(wd'[i])
             /\ lockRec'.present /\ lockRec'.holder = i
             /\ ~running'[i] /\ sig'[i]]_vars

\* A first startup was refused as restore-only and left the table empty.
RestoreOnlyGuardWitness ==
    /\ last.op = "build" /\ last.res = "RestoreOnly"
    /\ last.fresh /\ last.remote_keys = {}
    /\ store[last.inst] = EmptyTable /\ DOMAIN remote = {}
    /\ HasInstanceId(wd[last.inst])
    /\ lockRec.present /\ lockRec.holder = last.inst

\* C13 - Initialization marker: a startup that returns Ok leaves the marker
\* ("breez","restore_state","initialized") = "1" in the local table and in
\* the remote store, and after a startup that returned Ok no later startup on
\* the same working directory fails the restore-only check.
InitializationMarker ==
    last.op = "build"
    => /\ last.res = "Ok"
          => /\ is_initialized(store[last.inst])
             /\ MarkerKey \in DOMAIN remote
             /\ remote[MarkerKey].value = VALUE_INITIALIZED
       /\ last.initialized => last.res # "RestoreOnly"

\* C14 - Marker replication: a newly installed instance that starts against a
\* remote store initialized by another instance, after that instance shut
\* down, does not fail with RESTORE_ONLY, and when its startup returns Ok it
\* has the marker row.
MarkerReplication ==
    (/\ last.op = "build" /\ last.fresh
     /\ MarkerKey \in last.remote_keys
     /\ OthersReleased(last.inst))
    => /\ last.res # "RestoreOnly"
       /\ last.res = "Ok" => is_initialized(store[last.inst])

\* The step keeps the row of k on device i.
RowKept(i, k) == k \in DOMAIN store[i] /\ k \in DOMAIN store'[i]

NonDecreasing(i, k) == store'[i][k].local_version >= store[i][k].local_version

\* The step is MirroringStore::new on device i with download reconciliation.
DownloadStep(i) ==
    /\ last'.op = "new" /\ last'.inst = i
    /\ last'.previous_holder = "RemoteInstance"

\* The server accepted a put of k in the step.
PutAccepted(k) ==
    /\ k \in DOMAIN remote'
    /\ remote'[k].version = RemoteVersion(remote, k) + 1

\* The step is the remote part of write(k, ..) of caller t on device i and its
\* put succeeded.
WritePut(t, i, k) ==
    /\ ops[t].pc = "put" /\ ops[t].inst = i /\ ops[t].key = k
    /\ ops'[t].pc = "idle"
    /\ PutAccepted(k)

\* The step is the local part of write(k, ..) of caller t on device i, and it
\* goes on to the remote put.
WriteBump(t, i, k) ==
    /\ ops[t].pc = "idle" /\ ops'[t].pc = "put"
    /\ ops'[t].inst = i /\ ops'[t].key = k

\* The step is upload reconciliation on device i and its put of k succeeded.
UploadPut(i, k) ==
    /\ last'.op = "new" /\ last'.inst = i
    /\ last'.previous_holder = "LocalInstance"
    /\ PutAccepted(k)

\* C15 as stated - Version monotonicity: for any row, local_version never
\* decreases across any operation (write, remove, upload reconciliation,
\* download reconciliation), and every successful remote put for the row
\* increases its local_version by exactly one (over the version the row had
\* when the operation began; a row that did not exist counts as -1).
VersionMonotonicity ==
    [][\A i \in Inst, k \in Keys :
          RowKept(i, k)
          => /\ NonDecreasing(i, k)
             /\ \A t \in Threads :
                   WritePut(t, i, k)
                   => store'[i][k].local_version = (ops[t].next_version - 1) + 1
             /\ UploadPut(i, k)
                => store'[i][k].local_version = store[i][k].local_version + 1]_vars

\* C15 - Version monotonicity: for any row, local_version never decreases
\* across write, remove and upload reconciliation; download reconciliation
\* replaces it by the version of the remote object minus one, which may be
\* lower. Every write that changes an existing row increases its
\* local_version by exactly one before the put, and a successful put of the
\* write leaves it there; a successful put of upload reconciliation leaves
\* local_version as it was.
VersionMonotonicityLocal ==
    [][\A i \in Inst, k \in Keys :
          RowKept(i, k)
          => /\ ~DownloadStep(i) => NonDecreasing(i, k)
             /\ DownloadStep(i)
                => /\ k \in DOMAIN remote
                   /\ store'[i][k].local_version = remote[k].version - 1
             /\ \A t \in Threads :
                   /\ WriteBump(t, i, k)
                      => /\ store'[i][k].local_version = store[i][k].local_version + 1
                         /\ ops'[t].next_version = store'[i][k].local_version
                   /\ WritePut(t, i, k)
                      => store'[i][k].local_version = (ops[t].next_version - 1) + 1
             /\ UploadPut(i, k)
                => store'[i][k].local_version = store[i][k].local_version]_vars

\* Upload reconciliation has put an outdated row that had been written twice:
\* the server is at version 2 and the row is still at local_version 1.
VersionMonotonicityWitness ==
    /\ last.op = "new" /\ last.previous_holder = "LocalInstance"
    /\ last.res = "Ok" /\ last.puts > 0
    /\ \E k \in last.outdated :
          /\ k \in DOMAIN store[last.inst] /\ k \in DOMAIN remote
          /\ store[last.inst][k].local_version = 1
          /\ store[last.inst][k].remote_version = 1
          /\ remote[k].version = 2

\* The associated data the ciphertext in `bytes` is bound to.
BoundAad(bytes) == StorableDecode(bytes).storable.aad

\* C16 - VRS round trip: after put(k, v, e) succeeded, get(k) through a store
\* built from the same seed returns (v, e + 1), and the associated data bound
\* into the stored ciphertext is the associated data get checks.
PutGetRoundTrip ==
    (last.op = "put" /\ last.res = "Ok")
    => LET self == VssStoreNew(DeviceSeed)
           g == get(self, remote, last.key, FALSE)
       IN /\ g.res = "Ok" /\ g.some
          /\ g.value = last.value /\ g.version = last.version + 1
          /\ BoundAad(remote[obfuscate_key(self, last.key)].value)
                = obfuscate_key(self, last.key)

\* The bytes are a ciphertext that put builds for key k on a store of `self`.
BuiltFor(self, k, bytes) ==
    \E v \in VssValues, version \in 0..MaxVersion, nonce \in Nonces :
       bytes = construct_storable(self, k, v, version, nonce)

\* C17 - VRS read integrity: get(k) never returns a value whose embedded
\* version differs from the version in the server's metadata or whose
\* ciphertext was built for another key; an error comes with no value and
\* after the one request made.
ReadIntegrity ==
    \A seed \in Seeds, k \in VssKeys :
       LET self == VssStoreNew(seed)
           okey == obfuscate_key(self, k)
           g == get(self, remote, k, FALSE)
       IN /\ (g.res = "Ok" /\ g.some)
             => /\ StorableDecode(remote[okey].value).storable.version
                      = remote[okey].version
                /\ \A other_key \in VssKeys \ {k} :
                      ~BuiltFor(self, other_key, remote[okey].value)
          /\ g.res # "Ok" => (~g.some /\ g.requests = 1)

\* C18 - Delete is unconditional and idempotent: delete(k) sends version -1
\* and succeeds whatever the server holds for k, also nothing; remove(k) for
\* a key with no local row returns Ok, issues one remote delete and leaves
\* every local row unchanged.
DeleteUnconditional ==
    [][/\ DeleteVersion = -1
       /\ \A k \in VssKeys :
             LET d == delete(VssStoreNew(DeviceSeed), remote, k, FALSE)
             IN d.res = "Ok"
                /\ obfuscate_key(VssStoreNew(DeviceSeed), k) \notin DOMAIN d.srv
       /\ \A i \in Inst, k \in VssKeys :
             (k \notin DOMAIN store[i] /\ KvRemove(i, k, FALSE))
             => /\ last'.res = "Ok" /\ last'.deletes = 1
                /\ store' = store
                /\ obfuscate_key(VssStoreNew(DeviceSeed), k) \notin DOMAIN remote']_vars

\* remove of a key with no local row returned Ok while the table holds the
\* row of another key and the server an object at version 2.
DeleteUnconditionalWitness ==
    /\ last.op = "remove" /\ last.res = "Ok" /\ last.deletes = 1
    /\ last.key \notin DOMAIN store["A"]
    /\ \E k \in DOMAIN store["A"] : ~store["A"][k].removed
    /\ \E a \in DOMAIN remote : remote[a].version = 2

Lower(name) == to_ascii_lowercase(name)

\* The headers are all there and well formed, the signature recovers to the
\* key of the pubkey header over the digest of request time and API key, and
\* the request time is at most max_skew from the clock.
Accepts(h, clock) ==
    /\ \A c \in HeaderConsts : Lower(c) \in DOMAIN h
    /\ \E k \in SigningKeys, t \in RequestTimes :
          /\ h[Lower(USER_PUBKEY_HEADER)] = PubkeyHex(k)
          /\ h[Lower(REQUEST_TIME_HEADER)] = TimeToString(t)
          /\ LET sg == h[Lower(SIGNATURE_HEADER)]
             IN /\ "zbase32" \in DOMAIN sg
                /\ sg.zbase32.len = 65
                /\ sg.zbase32.recovery_id \in 0..3
                /\ sg.zbase32.signer = k
                /\ sg.zbase32.msg = [sha256d |-> <<SIGNED_MSG_PREFIX, t, h[Lower(API_KEY_HEADER)]>>]
          /\ t - clock <= max_skew /\ clock - t <= max_skew

\* The header map h with the value of header c replaced.
WithValue(h, c, value) == [n \in DOMAIN h |-> IF n = Lower(c) THEN value ELSE h[n]]

\* C19 - Request authentication: authenticate accepts a header set if and only
\* if the pubkey, API-key, request-time and signature headers are all present
\* and well formed, the signature recovers to the pubkey in the header over
\* the digest of (request-time header, API-key header) and the server clock
\* is at most max_skew from the request time; it returns the pubkey header;
\* an accepted request presented with another request time or another API
\* key is rejected at every time.
RequestAuthentication ==
    last.op = "auth"
    => LET h == LowercaseNames(last.headers, last.pick)
       IN /\ last.ret.res = "Ok" <=> Accepts(h, last.clock)
          /\ last.ret.res = "Ok"
             => /\ last.ret.pubkey = h[Lower(USER_PUBKEY_HEADER)]
                /\ \A clock \in RequestTimes :
                      /\ \A value \in HeaderValues(API_KEY_HEADER) \ {h[Lower(API_KEY_HEADER)]} :
                            authenticate(WithValue(h, API_KEY_HEADER, value),
                                         max_skew, clock, TRUE).res # "Ok"
                      /\ \A value \in HeaderValues(REQUEST_TIME_HEADER)
                                         \ {h[Lower(REQUEST_TIME_HEADER)]} :
                            authenticate(WithValue(h, REQUEST_TIME_HEADER, value),
                                         max_skew, clock, TRUE).res # "Ok"

\* A request signed by A one tick before the clock was accepted.
RequestAuthenticationWitness ==
    /\ last.op = "auth" /\ last.ret.res = "Ok"
    /\ last.ret.pubkey = PubkeyHex("A")
    /\ last.clock = 2
    /\ \E n \in DOMAIN last.headers :
          Lower(n) = Lower(REQUEST_TIME_HEADER) /\ last.headers[n] = TimeToString(1)

\* The header map with the name n respelled as n2.
Renamed(h, n, n2) ==
    [x \in (DOMAIN h \ {n}) \cup {n2} |-> IF x = n2 THEN h[n] ELSE h[x]]

\* The other spellings of a header name.
CaseVariants(n) == {x \in HeaderNames : Lower(x) = Lower(n)} \ {n}

\* Every respelling of one header name of the accepted set is accepted with
\* the same pubkey, however the map is iterated.
AcceptedWhateverTheCase ==
    \A n \in DOMAIN last.headers :
       \A n2 \in CaseVariants(n) \ DOMAIN last.headers :
          \A pick \in BOOLEAN :
             authenticate(Renamed(last.headers, n, n2), max_skew, last.clock, pick)
                = last.ret

\* C20 as stated - Header names are matched case-insensitively: for every
\* header set that authenticate accepts, the same set with any header name
\* changed in letter case is accepted with the same returned pubkey.
CaseInsensitiveNames ==
    (last.op = "auth" /\ last.ret.res = "Ok") => AcceptedWhateverTheCase

\* C20 - Header names are matched case-insensitively: for every header set
\* that authenticate accepts and in which no two names are equal up to letter
\* case, the same set with any header name changed in letter case is accepted
\* with the same returned pubkey.
CaseInsensitiveDistinctNames ==
    (/\ last.op = "auth" /\ last.ret.res = "Ok"
     /\ CaseDuplicates(last.headers) = {})
    => AcceptedWhateverTheCase

\* An accepted header set spells one name as the constant does and another in
\* lower case.
CaseInsensitiveWitness ==
    /\ last.op = "auth" /\ last.ret.res = "Ok"
    /\ CaseDuplicates(last.headers) = {}
    /\ USER_PUBKEY_HEADER \in DOMAIN last.headers
    /\ Lower(SIGNATURE_HEADER) \in DOMAIN last.headers

\* The refresher of device i has received the signal in this session.
SignalObserved(i) == rpc[i].pc \in {"unlock", "drop", "done"} /\ lk[i].state # "Acquiring"

\* The step is the return of Ldk::start on device i after a shutdown.
ShutdownReturns(i) == node[i] = "closing" /\ node'[i] = "exited"

\* C21 - Shutdown ordering: Ldk::start returns from a shutdown only after the
\* refresher has received the signal, has called unlock (with whatever result)
\* and has ended; once the refresher has received the signal it starts no
\* refresh; and a shutdown that has sent the signal eventually returns, given
\* that the refresh in flight and the unlock call terminate.
ShutdownOrdering ==
    /\ [][\A i \in Inst :
             /\ ShutdownReturns(i)
                => /\ ~sig[i]
                   /\ rpc[i].pc = "done"
                   /\ rpc[i].unlocked \in {"Ok", "Err"}
             /\ SignalObserved(i) => rpc'[i].pc \notin {"refresh", "wait"}]_vars
    /\ \A i \in Inst : (node[i] = "closing") ~> (node[i] = "exited")

\* A shutdown has returned after a release that failed: the lock record of the
\* device is still in the remote store.
ShutdownOrderingWitness ==
    /\ node["A"] = "exited"
    /\ rpc["A"].pc = "done" /\ rpc["A"].unlocked = "Err"
    /\ lockRec.present /\ lockRec.holder = "A"

\* The rows of the table of the device that a call of list(primary, secondary)
\* is to show.
Listed(i, primary, secondary) ==
    {k \in DOMAIN store[i] : k[1] = primary /\ k[2] = secondary /\ ~store[i][k].removed}

\* C22 - list(primary, secondary) returns exactly the keys of the rows with
\* that namespace pair whose removed flag is 0, each once, in ascending
\* lexicographic (byte) order, and no key of a row of another namespace pair.
ListContract ==
    last.op = "list"
    => LET rows == Listed(last.inst, last.primary, last.secondary)
           ret == last.ret
       IN /\ {ret[j] : j \in DOMAIN ret} = {k[3] : k \in rows}
          /\ Len(ret) = Cardinality(rows)
          /\ \A j1, j2 \in DOMAIN ret :
                j1 < j2 => BytesLess(Bytes(ret[j1]), Bytes(ret[j2]))

\* list("ns", "sub") has returned B and ab while the row of a in that pair is
\* tombstoned and the rows named a of the two other pairs are there.
ListContractWitness ==
    /\ last.op = "list" /\ last.primary = "ns" /\ last.secondary = "sub"
    /\ last.ret = <<"B", "ab">>
    /\ <<"ns", "sub", "a">> \in DOMAIN store["A"]
    /\ store["A"][<<"ns", "sub", "a">>].removed
    /\ Read(store["A"], <<"ns", "sub2", "a">>) # NotFound
    /\ Read(store["A"], <<"ns2", "sub", "a">>) # NotFound

\* The step is a call of read or list.
ReadOrList == last'.op \in {"read", "list"}

\* What a read of k or a list of its namespace pair on device i returned in
\* the step just taken, as "k is there with value v" or NotFound.
Shown(i, k) ==
    IF last.op = "read" /\ last.inst = i /\ last.key = k THEN last.ret
    ELSE IF last.op = "list" /\ last.inst = i /\ last.primary = k[1] /\ last.secondary = k[2]
    THEN IF \E j \in DOMAIN last.ret : last.ret[j] = k[3] THEN store[i][k].value ELSE NotFound
    ELSE "NotAsked"

\* C23 - read and list are local: a call of read or list changes no row, no
\* remote object and no call in flight; while a write or remove of k is parked
\* in its remote call, read(k) and list of the pair of k can be called, and
\* what they return shows the local update of that call: the value being
\* written, or k not found and not listed.
ReadsAreLocal ==
    /\ [][ReadOrList => (store' = store /\ remote' = remote /\ ops' = ops
                         /\ mutators' = mutators)]_vars
    /\ [](\A t \in Threads :
            ops[t].pc # "idle"
            => /\ ENABLED ReadCall(ops[t].inst, ops[t].key)
               /\ ENABLED ListRunning(ops[t].inst, ops[t].key[1], ops[t].key[2])
               /\ Shown(ops[t].inst, ops[t].key)
                     \in {"NotAsked", IF ops[t].pc = "put" THEN ops[t].value ELSE NotFound})

\* read(a) returned v2 while the write(a, v2) that replaces v1 is parked in its
\* remote put and the remote store still holds v1.
ReadsAreLocalWitness ==
    /\ ops["t1"].pc = "put" /\ ops["t1"].key = KeyA /\ ops["t1"].value = "v2"
    /\ last.op = "read" /\ last.key = KeyA /\ last.ret = "v2"
    /\ KeyA \in DOMAIN remote /\ remote[KeyA].value = "v1"

\* The call of write that begins in this step returns Ok without a remote put.
ShortCircuited(t) == ops[t].pc = "idle" /\ ops'[t].pc = "idle"

\* C24 - Short-circuit precondition: write(k, v) skips the remote put and
\* returns success only if the row of k exists, is clean (removed = 0 and
\* local_version = remote_version) and holds v; on a dirty or tombstoned row
\* write goes on to the remote put, also when the value is unchanged.
ShortCircuitPrecondition ==
    [][\A t \in Threads, i \in Inst, k \in Keys, v \in Values :
          WriteBegin(t, i, k, v)
          => /\ ShortCircuited(t)
                => /\ k \in DOMAIN store[i]
                   /\ ~DirtyRow(store[i][k])
                   /\ store[i][k].value = v
             /\ (k \in DOMAIN store[i] /\ DirtyRow(store[i][k]))
                => ~ShortCircuited(t)]_vars

\* No device but i has changed the remote store.
OnlyWriter(i) == mutators \subseteq {i}

\* C25 - A remote CONFLICT means a lost race: while no other device has
\* changed the remote store, no put of a write and no put of an upload
\* reconciliation of this device is rejected with CONFLICT, whatever writes,
\* removes, failed remote calls and restarts came before.
ConflictMeansLostRace ==
    /\ \A i \in Inst, k \in Keys :
          (OnlyWriter(i) /\ hist[i][k].kind = "write") => hist[i][k].put # "Conflict"
    /\ (last.op = "new" /\ OnlyWriter(last.inst)) => last.res # "Conflict"

\* The row download stores for the remote object o.
Downloaded(o) == Row(o.value, o.version - 1, o.version - 1, FALSE)

\* No write or remove of k was called on device i since it started.
Untouched(i, k) == hist[i][k] = NoHist /\ ~KeyLocked(i, k)

\* The step is the remote part of the write of caller t and its put is not
\* failed by the network.
HealthyPut(t) == ops[t].pc = "put" /\ ops'[t].pc = "idle" /\ hist'[ops[t].inst][ops[t].key].put # "Internal"

\* C26 - Download version bookkeeping: download leaves only rows with
\* local_version = remote_version = server version - 1 and removed = 0, one
\* for every remote object when it returns Ok, so the table is clean; the
\* first write of a new value to a downloaded key sends the version the
\* server stores as expected version; that version stays the server's while
\* the call is parked; and a put that sends the server's version and is not
\* failed by the network succeeds and leaves the row clean.
DownloadBookkeeping ==
    [][\A i \in Inst :
          /\ DownloadStep(i)
             => /\ \A k \in DOMAIN store'[i] :
                      k \in DOMAIN remote /\ store'[i][k] = Downloaded(remote[k])
                /\ ~is_dirty(store'[i])
                /\ last'.res = "Ok" => DOMAIN store'[i] = DOMAIN remote
          /\ \A t \in Threads, k \in Keys, v \in Values :
                (/\ Untouched(i, k) /\ k \in DOMAIN store[i]
                 /\ v # store[i][k].value
                 /\ WriteBegin(t, i, k, v))
                => /\ ops'[t].pc = "put"
                   /\ ops'[t].next_version = RemoteVersion(remote, k)
          /\ \A t \in Threads :
                (ops[t].pc = "put" /\ ops[t].inst = i)
                => /\ ops'[t].pc = "put"
                      => RemoteVersion(remote', ops[t].key) = RemoteVersion(remote, ops[t].key)
                   /\ (HealthyPut(t) /\ ops[t].next_version = RemoteVersion(remote, ops[t].key))
                      => /\ hist'[i][ops[t].key].res = "Ok"
                         /\ ~DirtyRow(store'[i][ops[t].key])
                         /\ remote'[ops[t].key] = [value |-> ops[t].value,
                                                   version |-> ops[t].next_version + 1]]_vars

\* The first write to a key that was downloaded at server version 1 has put
\* its new value with expected version 1.
DownloadBookkeepingWitness ==
    /\ running["A"]
    /\ "B" \in mutators
    /\ hist["A"][KeyA].kind = "write" /\ hist["A"][KeyA].put = "Ok"
    /\ store["A"][KeyA] = Row(hist["A"][KeyA].value, 1, 1, FALSE)
    /\ remote[KeyA] = [value |-> hist["A"][KeyA].value, version |-> 2]

\* The step is MirroringStore::new on device i.
NewStep(i) == last'.op = "new" /\ last'.inst = i

\* The reconciliation of the step listed and fetched (download), or deleted
\* and put (upload).
Downloads == last'.lists > 0
Uploads == last'.puts + last'.dels > 0

\* C27 - Reconciliation dispatch: MirroringStore::new downloads if and only
\* if the previous holder is RemoteInstance, uploads if and only if the
\* previous holder is LocalInstance and the table is dirty, and with
\* LocalInstance and a clean table makes no remote call, changes no row and
\* returns Ok.
ReconciliationDispatch ==
    [][\A i \in Inst :
          NewStep(i)
          => /\ Downloads <=> last'.previous_holder = "RemoteInstance"
             /\ Uploads <=> (last'.previous_holder = "LocalInstance" /\ is_dirty(store[i]))
             /\ Downloads => (last'.puts = 0 /\ last'.dels = 0 /\ remote' = remote)
             /\ Uploads => (last'.lists = 0 /\ last'.gets = 0)
             /\ (last'.previous_holder = "LocalInstance" /\ ~is_dirty(store[i]))
                => /\ last'.puts + last'.dels + last'.gets + last'.lists = 0
                   /\ store' = store /\ remote' = remote
                   /\ last'.res = "Ok" /\ running'[i]]_vars

\* A start with previous holder LocalInstance found a clean table that is not
\* empty and left it alone, while a start before it had uploaded.
ReconciliationDispatchWitness ==
    /\ last.op = "new" /\ last.previous_holder = "LocalInstance"
    /\ ~last.was_dirty /\ last.puts + last.dels + last.gets + last.lists = 0
    /\ DOMAIN store[last.inst] = Keys
    /\ \E k \in Keys : store[last.inst][k].local_version = 1

\* The step is the acquire of device x, and it replaces a lock record held by
\* device y with one held by x.
TakesOver(x, y) ==
    /\ lk[x].state = "Acquiring"
    /\ lockRec.present /\ lockRec.holder = y
    /\ lockRec'.present /\ lockRec'.holder = x

\* C28 - Stealing needs an expired lease: an acquire that replaces the lock
\* record of another device is made by a device that sees the lease expired
\* on its own clock and whose compare-and-swap names the version the record
\* has; a record of another device whose lease has not expired on the
\* acquirer's clock is left alone by an acquire. It holds of LockingStoreNew as written
\* from the data model of the specification; time_lock.rs is not among the
\* sources, and step 3 of the acquire protocol, read literally, replaces the
\* record of another holder whether or not it has expired (ExpiredOrForeign).
StealNeedsExpiry ==
    [][\A x, y \in Inst :
          (x # y /\ TakesOver(x, y))
          => /\ LocalNow(x) >= lockRec.expires_at
             /\ lk[x].seen = lockRec
             /\ lockRec'.version = lockRec.version + 1]_vars

\* Device B has taken over the lock that device A held.
StealNeedsExpiryWitness ==
    /\ lockRec.present /\ lockRec.holder = "B" /\ lockRec.version > 0
    /\ lk["B"].state = "Acquired" /\ lk["B"].previous_holder = "RemoteInstance"

\* The rows of table t that upload deletes, and those it puts.
Tombstoned(t) == {k \in DOMAIN t : t[k].removed}
Outdated(t) == {k \in DOMAIN t : ~t[k].removed /\ t[k].local_version # t[k].remote_version}

\* Row k of table t as upload leaves it once its remote call has succeeded.
Processed(t, u, k) ==
    IF t[k].removed THEN k \notin DOMAIN u
    ELSE k \in DOMAIN u /\ u[k] = [t[k] EXCEPT !.remote_version = t[k].local_version]

\* C29 - Upload order: in an upload reconciliation no put is issued before
\* every tombstoned row has been deleted remotely and removed locally; when a
\* remote call fails the upload returns the error, no instance exists, the
\* rows whose call succeeded are processed and every other dirty row is
\* exactly as it was (still dirty); when none fails every dirty row is
\* processed and the table is clean. Rows that were clean are not touched.
UploadOrder ==
    [][\A i \in Inst :
          (NewStep(i) /\ last'.previous_holder = "LocalInstance" /\ is_dirty(store[i]))
          => LET t == store[i]
                 u == store'[i]
                 dirty == Tombstoned(t) \cup Outdated(t)
                 left == {k \in dirty : k \in DOMAIN u /\ u[k] = t[k]}
             IN /\ last'.puts > 0
                   => /\ last'.dels = Cardinality(Tombstoned(t))
                      /\ \A k \in Tombstoned(t) : k \notin DOMAIN u /\ k \notin DOMAIN remote'
                /\ \A k \in dirty \ left : Processed(t, u, k)
                /\ \A k \in DOMAIN t \ dirty : k \in DOMAIN u /\ u[k] = t[k]
                /\ DOMAIN u \subseteq DOMAIN t
                /\ last'.res # "Ok"
                   => /\ ~running'[i]
                      /\ left # {}
                      /\ Cardinality(dirty \ left) = last'.dels + last'.puts - 1
                      /\ \A k \in left : DirtyRow(u[k])
                /\ last'.res = "Ok"
                   => /\ running'[i] /\ left = {} /\ ~is_dirty(u)
                      /\ last'.dels = Cardinality(Tombstoned(t))
                      /\ last'.puts = Cardinality(Outdated(t))]_vars

\* An upload deleted its tombstoned row, then failed at the put of an outdated
\* row, which is still dirty.
UploadOrderWitness ==
    /\ last.op = "new" /\ last.previous_holder = "LocalInstance"
    /\ last.res = "Internal" /\ last.dels = 1 /\ last.puts = 1
    /\ last.tombstoned \cap DOMAIN store[last.inst] = {}
    /\ \E k \in last.outdated : DirtyRow(store[last.inst][k])

\* Thread t is inside a write or remove call, parked in its remote call.
Parked(t) == ops[t].pc # "idle"

\* The remote call of thread t settles in this step and the call returns.
Returns(t) == Parked(t) /\ ops'[t].pc = "idle"

\* The row of key k in the table of device i, and the remote object of k.
RowOf(i, k) ==
    IF k \in DOMAIN store[i] THEN [present |-> TRUE, row |-> store[i][k]]
    ELSE [present |-> FALSE]
ObjectOf(k) ==
    IF k \in DOMAIN remote THEN [present |-> TRUE, object |-> remote[k]]
    ELSE [present |-> FALSE]

\* C30 - Per-key serialization: two write or remove calls of one instance are
\* never inside their critical section on the same key at once; between the
\* row update of a call and its return no other step changes the row or the
\* remote object of its key; and the remote call that settles is the one of
\* the latest version bump of the key (a put carries the row's local_version
\* and value, a delete finds its tombstone).
PerKeySerialization ==
    /\ [](\A t, u \in Threads :
             (t # u /\ Parked(t) /\ Parked(u) /\ ops[t].inst = ops[u].inst)
             => ops[t].key # ops[u].key)
    /\ [][\A t \in Threads :
             /\ (Parked(t) /\ ops'[t] = ops[t])
                => /\ RowOf(ops[t].inst, ops[t].key)' = RowOf(ops[t].inst, ops[t].key)
                   /\ ObjectOf(ops[t].key)' = ObjectOf(ops[t].key)
             /\ (Returns(t) /\ ops[t].pc = "put")
                => LET r == RowOf(ops[t].inst, ops[t].key)
                   IN /\ r.present /\ ~r.row.removed
                      /\ r.row.local_version = ops[t].next_version
                      /\ r.row.value = ops[t].value
             /\ (Returns(t) /\ ops[t].pc = "del")
                => LET r == RowOf(ops[t].inst, ops[t].key)
                   IN r.present => r.row.removed]_vars

\* A second write of the key is parked in its put (the first has returned)
\* while the other thread, idle, cannot enter a write or a remove of that key.
PerKeySerializationWitness ==
    /\ running["A"]
    /\ ops["t1"].pc = "put" /\ ops["t1"].next_version = 1
    /\ ops["t2"].pc = "idle"
    /\ ~ENABLED RemoveBegin("t2", "A", ops["t1"].key)
    /\ \E k \in Keys \ {ops["t1"].key} : ENABLED RemoveBegin("t2", "A", k)

\* Thread u may enter a write or remove of key k on device i: every such call
\* the bounds of the model allow is enabled.
MayEnter(u, i, k) ==
    /\ ENABLED RemoveBegin(u, i, k)
    /\ \A v \in ValuesOf(k) :
          WriteLocal(store[i], k, v).next_version <= MaxVersion
          => ENABLED WriteBegin(u, i, k, v)

\* The call of thread u may settle its remote call and return.
MayReturn(u) == ENABLED (WriteRemote(u, FALSE) \/ RemoveRemote(u, FALSE))

\* C31 - Cross-key independence: while a write or remove is parked in its
\* remote call on one key, another thread may enter a write or remove of any
\* other key, and a call parked on another key may settle and return; the
\* key-lock map is locked only inside key_lock, never while a call is parked.
CrossKeyIndependence ==
    [](\A t, u \in Threads :
          (t # u /\ Parked(t))
          => /\ ~Parked(u) => \A k \in Keys \ {ops[t].key} : MayEnter(u, ops[t].inst, k)
             /\ Parked(u) => MayReturn(u))

\* Two calls of one instance are parked in their remote calls on different
\* keys, and either may return first.
CrossKeyIndependenceWitness ==
    /\ Parked("t1") /\ Parked("t2")
    /\ ops["t1"].inst = ops["t2"].inst /\ ops["t1"].key # ops["t2"].key
    /\ MayReturn("t1") /\ MayReturn("t2")

\* The refresher task of device i exists and runs its loop.
Spawned(i) == rpc[i].pc \in {"refresh", "wait"}

\* The step spawns the refresher of device i.
SpawnStep(i) == ~Spawned(i) /\ rpc'[i].pc = "refresh"

\* The step is a caller's write or remove on device i: a call enters, or a
\* row changes outside MirroringStore::new.
CallerStep(i) ==
    \/ \E t \in Threads : ops[t].pc = "idle" /\ ops'[t].pc # "idle" /\ ops'[t].inst = i
    \/ store'[i] # store[i] /\ ~NewStep(i)

\* C32 as stated - Startup order: the refresher is spawned only once the
\* reconciliation has completed and the instance exists; the reconciliation
\* runs with the lock acquired and no refresher yet; no caller operation runs
\* before the reconciliation has completed.
StartupOrder ==
    [][\A i \in Inst :
          /\ SpawnStep(i) => running[i]
          /\ NewStep(i) => (lk[i].state = "Acquired" /\ ~Spawned(i))
          /\ CallerStep(i) => running[i]]_vars

\* C32 - Startup order, as the code has it: the refresher is spawned by the
\* step in which the acquire of the lock succeeds, before the table is opened;
\* the reconciliation runs after both (the lock acquired in this startup, the
\* refresher running), the instance comes to exist only by a reconciliation
\* that returned Ok, and no caller operation runs before that.
StartupOrderSpawnFirst ==
    [][\A i \in Inst :
          /\ SpawnStep(i)
             => (lk[i].state = "Acquiring" /\ lk'[i].state = "Acquired" /\ ~running[i])
          /\ NewStep(i) => (Spawned(i) /\ lk[i].state \in {"Acquired", "Stolen"})
          /\ (running'[i] /\ ~running[i]) => (NewStep(i) /\ last'.res = "Ok")
          /\ CallerStep(i) => running[i]]_vars

\* Device A has acquired the lock, its refresher has refreshed the record
\* and gone to sleep, and only now the reconciliation has returned.
StartupOrderWitness ==
    /\ last.op = "new" /\ last.inst = "A" /\ last.res = "Ok" /\ running["A"]
    /\ rpc["A"].pc = "wait"
    /\ lockRec.present /\ lockRec.holder = "A" /\ lockRec.version = lk["A"].version
    /\ lockRec.version > 0 /\ lk["A"].previous_holder = "LocalInstance"

\* An attempt of the call of thread t ends in this step: with an error of
\* class E, and the call returns with it / and the task goes to sleep.
Fails(t, E) ==
    /\ ops[t].pc = "attempt" /\ ops'[t].pc = "idle"
    /\ last'.op = "call" /\ last'.thread = t /\ last'.outcome \in E
Retries(t) == ops[t].pc = "attempt" /\ ops'[t].pc = "sleep"

\* C33 - Retry classification: an attempt that fails with ConflictError,
\* NoSuchKeyError or InvalidRequestError is the last of its call, which
\* returns at once (Conflict for a conflict, otherwise Internal, or "absent"
\* from get for NoSuchKeyError); the first attempt failing with such an error
\* is the only one. An attempt failing with any other error is followed by
\* another unless the budget is used up, and the first always is. No call
\* makes more than 10 attempts.
RetryClassification ==
    /\ [][\A t \in Threads :
             /\ ops[t].pc = "attempt"
                => \/ ops'[t] = ops[t]
                   \/ Retries(t) /\ ops'[t].attempts_made = ops[t].attempts_made + 1
                   \/ Fails(t, VssErrors \cup {"Ok"})
                      /\ last'.attempts = ops[t].attempts_made + 1
             /\ Fails(t, {"ConflictError"}) => last'.res = "Conflict"
             /\ Fails(t, {"InvalidRequestError"}) => last'.res = "Internal"
             /\ Fails(t, {"NoSuchKeyError"})
                => last'.res = IF last'.call = "get" THEN "None" ELSE "Internal"
             /\ Fails(t, {"InternalServerError", "InternalError"})
                => /\ last'.attempts > 1
                   /\ last'.res = "Internal"
             /\ Retries(t)
                => ops'[t].error \in {"InternalServerError", "InternalError"}]_vars
    /\ [](\A t \in Threads :
             ops[t].pc \in {"attempt", "sleep"} => ops[t].attempts_made < MaxAttempts)
    /\ [](last.op = "call" => last.attempts <= MaxAttempts)

\* A put was retried after a transient error and its second attempt met a
\* conflict, which ended the call; elsewhere a call has used up its budget.
RetryClassificationWitness ==
    /\ last.op = "call" /\ last.call = "put"
    /\ last.outcome = "ConflictError" /\ last.res = "Conflict" /\ last.attempts = 2
    /\ \E t \in Threads : ops[t].pc = "attempt" /\ ops[t].attempts_made > 4

\* The requests sent so far follow the responses: the first carries no token,
\* each later one the next_page_token of the response before it.
TokensFollow(sent, got) ==
    /\ Len(sent) >= 1 /\ sent[1] = NoToken
    /\ \A n \in 2..Len(sent) : n - 1 \in DOMAIN got /\ sent[n] = got[n - 1]

\* C34 - List pagination: every list request after the first carries the
\* next_page_token of the response before it; the loop goes on exactly while
\* the token is present and not empty; the call returns Ok with every listed
\* (key, version), in order and with the key de-obfuscated, when no request
\* failed and every name de-obfuscates, and an error otherwise; and a call
\* whose server ends the listing returns.
ListPagination ==
    /\ [](ops["t1"].pc = "paging"
             => /\ Len(ops["t1"].sent) = Len(ops["t1"].got)
                /\ \A n \in DOMAIN ops["t1"].got : ~LastPage(ops["t1"].got[n])
                /\ ops["t1"].sent # <<>> => TokensFollow(ops["t1"].sent, ops["t1"].got)
                /\ ops["t1"].page_token =
                      IF ops["t1"].got = <<>> THEN NoToken
                      ELSE ops["t1"].got[Len(ops["t1"].got)])
    /\ [](last.op = "list"
             => /\ TokensFollow(last.sent, last.got)
                /\ \A n \in DOMAIN last.got : LastPage(last.got[n]) <=> n = Len(last.sent)
                /\ last.res = "Ok"
                   <=> /\ Len(last.got) = Len(last.sent)
                       /\ \A n \in DOMAIN last.listed :
                             deobfuscate_key(VssStoreNew(DeviceSeed), last.listed[n].key).res = "Ok"
                /\ last.res = "Ok"
                   => /\ Len(last.versions) = Len(last.listed)
                      /\ \A n \in DOMAIN last.listed :
                            /\ obfuscate_key(VssStoreNew(DeviceSeed), last.versions[n][1])
                                  = last.listed[n].key
                            /\ last.versions[n][2] = last.listed[n].version)
    /\ (ops["t1"].pc = "paging") ~> (ops["t1"].pc = "idle")

\* A listing of three pages returned the two keys of the store.
ListPaginationWitness ==
    /\ last.op = "list" /\ last.res = "Ok"
    /\ Len(last.sent) = 3 /\ last.sent[2] # NoToken /\ last.sent[3] # last.sent[2]
    /\ {last.versions[n][1] : n \in DOMAIN last.versions} = VssKeys

\* Row k of device i looks clean after the step and did not before.
BecomesClean(i, k) ==
    /\ k \in DOMAIN store'[i] /\ ~DirtyRow(store'[i][k])
    /\ k \in DOMAIN store[i] => (DirtyRow(store[i][k]) \/ store'[i][k] # store[i][k])

\* The step holds a remote call on key k that device i saw succeed: the put
\* of a write that returns, or a put or get of a reconciliation; after it the
\* remote object of k has the value of the row, one version above it.
Acknowledged(i, k) ==
    /\ \/ \E t \in Threads : Returns(t) /\ ops[t].pc = "put"
                                /\ ops[t].inst = i /\ ops[t].key = k /\ remote' # remote
       \/ NewStep(i) /\ last'.puts + last'.gets > 0
    /\ k \in DOMAIN remote'
    /\ remote'[k].value = store'[i][k].value
    /\ remote'[k].version = store'[i][k].local_version + 1

\* The remote call of thread t fails in this step.
RemoteFails(t) == Returns(t) /\ remote' = remote /\ store' = store

\* C35 - Row version invariant: every local row has local_version >= 0 and
\* -1 <= remote_version <= local_version; a row comes to look clean only in a
\* step whose remote call on its key succeeded, and the row of a write or
\* remove whose remote call fails is dirty when the call returns.
RowVersionInvariant ==
    /\ [](\A i \in Inst : \A k \in DOMAIN store[i] :
             /\ store[i][k].local_version >= 0
             /\ -1 <= store[i][k].remote_version
             /\ store[i][k].remote_version <= store[i][k].local_version)
    /\ [][\A i \in Inst :
             /\ \A k \in Keys : BecomesClean(i, k) => Acknowledged(i, k)
             /\ \A t \in Threads :
                   (RemoteFails(t) /\ ops[t].inst = i /\ ops[t].key \in DOMAIN store[i])
                   => DirtyRow(store'[i][ops[t].key])]_vars

\* The put of a second write of a key has failed: the row is at version 1
\* with version 0 acknowledged.
RowVersionInvariantWitness ==
    \E k \in Keys :
       /\ hist["A"][k].kind = "write" /\ hist["A"][k].put = "Internal"
       /\ k \in DOMAIN store["A"]
       /\ store["A"][k].local_version = 1 /\ store["A"][k].remote_version = 0

\* The remote store holds row r of key k: the same value, one version above.
Mirrored(k, r) ==
    /\ k \in DOMAIN remote
    /\ remote[k].value = r.value
    /\ remote[k].version = r.local_version + 1

\* C36 - Mirror agreement: while device i is the only writer of the remote
\* store and its instance exists, every clean row of its table has a remote
\* object with the same value whose version is local_version + 1.
MirrorAgreement ==
    \A i \in Inst :
        (running[i] /\ OnlyWriter(i))
        => \A k \in DOMAIN store[i] : ~DirtyRow(store[i][k]) => Mirrored(k, store[i][k])

\* The instance runs with a clean row at version 1, mirrored at version 2,
\* next to a row whose put has failed.
MirrorAgreementWitness ==
    /\ running["A"] /\ OnlyWriter("A")
    /\ \E k \in DOMAIN store["A"] :
          /\ ~DirtyRow(store["A"][k]) /\ store["A"][k].local_version = 1
          /\ Mirrored(k, store["A"][k])
    /\ \E k \in DOMAIN store["A"] : DirtyRow(store["A"][k])

\* The step is a startup of device i whose download reconciliation failed.
DownloadFails(i) ==
    /\ last'.op = "build" /\ last'.inst = i
    /\ last'.res = "Err" /\ last'.previous_holder = "RemoteInstance"
    /\ running' = running /\ ~running[i]
    /\ remote' = remote

\* The startup that follows on device i when nothing happens in between and
\* nothing goes wrong: what the lock reports on the record as it is now, and
\* what Ldk::build makes of the table with it.
NextStartup(i) ==
    LET a == LockingStoreNew(i, lockRec, FALSE)
    IN [lock |-> a.res,
        build |-> IF a.res = "Ok"
                  THEN Build(store[i], remote, a.lk.previous_holder, FALSE,
                             CHOOSE o \in KeyOrders : TRUE, 0, FALSE, FALSE)
                  ELSE [res |-> "Err", table |-> store[i], rem |-> remote]]

\* C37 - An interrupted download is not mistaken for a complete mirror: when
\* the download of a startup has failed, the next startup of the device, if
\* it succeeds with nobody having written in between, ends with every key of
\* the remote store in the local table.
InterruptedDownload ==
    [][\A i \in Inst :
          DownloadFails(i)
          => LET n == NextStartup(i)'
             IN (n.lock = "Ok" /\ n.build.res = "Ok")
                => DOMAIN n.build.rem \subseteq DOMAIN n.build.table]_vars

NoSlash(str) == Slashes(str) = 0

\* C38 - Key join and split are inverse: a triple whose namespaces hold no
\* separator (the secondary namespace may be empty, the key may hold
\* separators) joined into a full key splits into the same triple, so a
\* download stores under that triple, with its value, exactly what the remote
\* store holds under the full key, the rows another device wrote included;
\* a listed name with fewer than two separators creates no row.
KeyRoundTrip ==
    [][\A j \in Inst :
          (last'.op = "download" /\ last'.inst = j)
          => /\ \A t \in Triples :
                  (NoSlash(t[1]) /\ NoSlash(t[2]))
                  => LET full_key == format(t[1], t[2], t[3])
                         r == split_key(full_key)
                     IN /\ r.ok /\ <<r.primary, r.secondary, r.key>> = t
                        /\ t \in DOMAIN store'[j] <=> full_key \in DOMAIN remote
                        /\ full_key \in DOMAIN remote
                           => store'[j][t].value = remote[full_key].value
             /\ \A i \in Inst : \A t \in DOMAIN store[i] :
                  (/\ i # j /\ NoSlash(t[1]) /\ NoSlash(t[2])
                   /\ store[i][t].remote_version = store[i][t].local_version)
                  => /\ t \in DOMAIN store'[j]
                     /\ store'[j][t].value = store[i][t].value
             /\ Cardinality(DOMAIN store'[j])
                = Cardinality({n \in DOMAIN remote : Slashes(n) >= 2})
             /\ \A n \in DOMAIN remote :
                  Slashes(n) < 2 => ~split_key(n).ok]_vars

\* Device B has downloaded a row device A wrote under an empty secondary
\* namespace and a key holding a separator, next to a name that does not split.
KeyRoundTripWitness ==
    /\ last.op = "download" /\ last.inst = "B"
    /\ \E t \in DOMAIN store["B"] :
          /\ t[2] = <<>> /\ ~NoSlash(t[3]) /\ NoSlash(t[1])
          /\ t \in DOMAIN store["A"]
          /\ store["B"][t].value = "v1"
    /\ \E n \in DOMAIN remote : Slashes(n) < 2

\* A startup of device i has just failed after the lock was acquired.
StartupFailed(i) ==
    /\ last.op = "build" /\ last.inst = i
    /\ last.res = "Err" /\ last.previous_holder # "None"

ReleasedOnShutdown(i) ==
    /\ rpc[i].pc \in {"drop", "done"}
    /\ rpc[i].unlocked = "Ok"

\* The step completes a remote put or delete of a KV call on device i that
\* the server applies.
RemoteMutation(i) ==
    /\ \E t \in Threads :
          /\ ops[t].pc \in {"put", "del"} /\ ops[t].inst = i
          /\ ops'[t].pc = "idle"
    /\ remote' # remote

\* C40 - No remote mutation after release: once the refresher of an instance
\* has released the remote lock during shutdown, no put or delete of a write
\* or remove on that instance reaches the remote store.
NoMutationAfterRelease ==
    [][\A i \in Inst : ReleasedOnShutdown(i) => ~RemoteMutation(i)]_vars
=============================================================================
